---- MODULE Spec2Model ----
(***************************************************************************)
(* Model of arequest's connection pool and request engine                  *)
(* (src/src/arequest/client.py): one Session, the _ConnectionPool of one   *)
(* (host, port, is_ssl) key, and a set of tasks that call Session.request  *)
(* one call after another on the single-threaded event loop.  An action    *)
(* is the code a task runs between two suspension points (await).          *)
(*                                                                         *)
(* Spec        the session with its pool under concurrent requests         *)
(* SpecSilent  the same against a server that never responds               *)
(* SpecPool    the pool driven directly through acquire, release, close    *)
(* SpecScan    acquire on a pool whose idle list holds several connections *)
(* SpecLifo    acquire and release on a pool that keeps every connection   *)
(* SpecChain   the frames of one request call chain and its redirect hops  *)
(* SpecTls     requests with and without certificate verification          *)
(* SpecCreate  one connection creation: DNS cache and address loop         *)
(* SpecCall    the content of one request and of its redirect hops         *)
(* SpecParse   _SimpleHTTPParser reading one response from a byte stream   *)
(* SpecGather  Session.gather and Session.bulk_get over concurrent requests*)
(* SpecKeys    requests and redirect hops to several (host, port, tls) keys*)
(***************************************************************************)
EXTENDS Integers, Sequences, FiniteSets, TLC

\* ---------------------------------------------------------------- bounds
NumTasks == 2        \* concurrent Session.request calls
MaxConns == 2        \* connections the environment lets the pool open
MaxTime == 1         \* last value of the monotonic clock
MaxRedirects == 1    \* the max_redirects argument callers pass (default 10, scaled)

\* ------------------------------------------------- program parameters
max_size == 1        \* _ConnectionPool.max_size (connector_limit_per_host), scaled
max_idle_time == 0   \* _ConnectionPool.max_idle_time, scaled to the model clock
dns_ttl == 2         \* the 60.0 seconds of _resolve_dns, scaled to the model clock

Tasks == 1..NumTasks
Conns == 1..MaxConns
None == 0            \* Python None for reader/writer

VARIABLES
    now,             \* time.monotonic()
    available,       \* _ConnectionPool._available: list of (writer, created)
    in_use,          \* _ConnectionPool._in_use: set of writers
    closed,          \* _ConnectionPool._closed
    creating,        \* _ConnectionPool._creating
    is_closing,      \* writer.is_closing() of every connection
    made,            \* number of connections opened so far
    s_closed,        \* Session._closed
    pools,           \* Session._pools: TRUE iff the key is registered
    pc,              \* where the request call of each task is suspended
    writer,          \* the local reader/writer pair of each request call
    max_redirects,   \* the max_redirects argument of the current hop
    allow_redirects, \* the allow_redirects argument of the current hop
    default_timeout, \* Session._default_timeout is truthy: the session is
                     \* built with a timeout (without one, CreateTimeout
                     \* never fires and the behaviours are a subset)
    rel,             \* history: the pool.release call made by the last step,
                     \* or the error a direct pool call raised
    session,         \* Session._default_headers and Session.auth
    args,            \* the arguments of the running Session.request call
    wire,            \* history: every request serialized, oldest first
    chain,           \* history: every response parsed, oldest first
    result,          \* what the outermost Session.request call returned
    served,          \* history: the response the server sent to the parser
    reader,          \* the bytes of the StreamReader not yet read
    parser,          \* the _SimpleHTTPParser while parse() runs
    gather,          \* a Session.gather or Session.bulk_get call: its
                     \* arguments, its tasks and what it returned
    pools_by_key,    \* Session._pools: the pool of each registered key
    calls,           \* the request call of each task, in the view by key
    keyhist,         \* history: the target every connection was opened
                     \* to, the pools built per key, the targets asked for
    dns_cache,       \* _ConnectionPool._dns_cache: the address list,
                     \* <<>> for None
    dns_expire,      \* _ConnectionPool._dns_expire
    creations,       \* where the _create_connection call of each task is
    dnshist,         \* history: how the last step ended a resolution or
                     \* a creation
    outer            \* the writer local of each suspended Session.request
                     \* frame of a task's call chain, innermost first

\* the variables of the view by pool key
keyvars == <<pools_by_key, calls, keyhist>>

\* the variables of the view of one connection creation
dnsvars == <<dns_cache, dns_expire, creations, dnshist>>

\* the variables of the response-parser view
parsevars == <<served, reader, parser>>

\* the variables of the request-content view (arguments, headers, bytes),
\* and those of the views beside it
callvars == <<session, args, wire, chain, result, parsevars, gather,
              keyvars, dnsvars, outer>>

vars == <<now, available, in_use, closed, creating, is_closing, made,
          s_closed, pools, pc, writer, max_redirects, allow_redirects,
          default_timeout, rel, session, args, wire, chain, result,
          served, reader, parser, gather, pools_by_key, calls, keyhist,
          dns_cache, dns_expire, creations, dnshist, outer>>

\* ------------------------------------------------------------ wire codec
\* Header lines a server may send, as (name, value) pairs.
HdrClose == <<"Connection", "close">>
HdrCloseLc == <<"connection", "Close">>
HdrKeep == <<"Connection", "keep-alive">>
HdrLoc == <<"Location", "/b">>

\* The responses a server may send: status and header block.
Responses ==
    { [status |-> 200, lines |-> <<>>],
      [status |-> 200, lines |-> <<HdrKeep>>],
      [status |-> 200, lines |-> <<HdrClose>>],
      [status |-> 200, lines |-> <<HdrCloseLc, HdrKeep>>],
      [status |-> 302, lines |-> <<HdrLoc>>],
      [status |-> 302, lines |-> <<HdrLoc, HdrClose>>],
      [status |-> 302, lines |-> <<HdrKeep>>] }

\* bytes.lower() on the names and values that occur
Lower(s) ==
    CASE s = "Connection" -> "connection"
      [] s = "Location" -> "location"
      [] s = "Close" -> "close"
      [] OTHER -> s

\* b'close' in value (substring test on the values that occur)
ContainsClose(v) == v \in {"close"}

\* the header loop comparing name and value without lowering them
RECURSIVE ParseKeepAlive_CaseSensitive(_, _)
ParseKeepAlive_CaseSensitive(lines, ka) ==
    IF lines = <<>> THEN ka
    ELSE LET line == Head(lines) IN
         IF line[1] = "Connection" /\ ContainsClose(line[2])
         THEN ParseKeepAlive_CaseSensitive(Tail(lines), FALSE)
         ELSE ParseKeepAlive_CaseSensitive(Tail(lines), ka)

\* the header loop of _SimpleHTTPParser.parse: keep_alive after the lines
RECURSIVE ParseKeepAlive(_, _)
ParseKeepAlive(lines, ka) ==
    IF lines = <<>> THEN ka
    ELSE LET line == Head(lines) IN
         IF Lower(line[1]) = "connection" /\ ContainsClose(Lower(line[2]))
         THEN ParseKeepAlive(Tail(lines), FALSE)
         ELSE ParseKeepAlive(Tail(lines), ka)

\* self.headers[key] = value, then response.headers.get('Location', '')
RECURSIVE HeaderGet(_, _, _)
HeaderGet(lines, key, dflt) ==
    IF lines = <<>> THEN dflt
    ELSE LET line == Head(lines) IN
         HeaderGet(Tail(lines), key, IF line[1] = key THEN line[2] ELSE dflt)

\* _SimpleHTTPParser.parse: the parser outputs the request engine uses
Parse(resp) ==
    [status_code |-> resp.status,
     keep_alive |-> ParseKeepAlive(resp.lines, TRUE),
     location |-> HeaderGet(resp.lines, "Location", "")]

\* ------------------------------------------------------------------ pool
\* the scan returning the head entry without popping it
RECURSIVE ScanIdle_NoPop(_, _, _)
ScanIdle_NoPop(av, cl, t_now) ==
    IF av = <<>>
    THEN [writer |-> None, available |-> av, is_closing |-> cl]
    ELSE LET e == Head(av) IN
         IF ~cl[e.w] /\ (t_now - e.created) <= max_idle_time
         THEN [writer |-> e.w, available |-> av, is_closing |-> cl]
         ELSE ScanIdle_NoPop(Tail(av), [cl EXCEPT ![e.w] = TRUE], t_now)

\* the scan without the writer.is_closing() test
RECURSIVE ScanIdle_NoClosingCheck(_, _, _)
ScanIdle_NoClosingCheck(av, cl, t_now) ==
    IF av = <<>>
    THEN [writer |-> None, available |-> av, is_closing |-> cl]
    ELSE LET e == Head(av) IN
         IF (t_now - e.created) <= max_idle_time
         THEN [writer |-> e.w, available |-> Tail(av), is_closing |-> cl]
         ELSE ScanIdle_NoClosingCheck(Tail(av), [cl EXCEPT ![e.w] = TRUE],
                                      t_now)

\* the scan with < in place of <= in the idle-age test
RECURSIVE ScanIdle_StrictAge(_, _, _)
ScanIdle_StrictAge(av, cl, t_now) ==
    IF av = <<>>
    THEN [writer |-> None, available |-> av, is_closing |-> cl]
    ELSE LET e == Head(av) IN
         IF ~cl[e.w] /\ (t_now - e.created) < max_idle_time
         THEN [writer |-> e.w, available |-> Tail(av), is_closing |-> cl]
         ELSE ScanIdle_StrictAge(Tail(av), [cl EXCEPT ![e.w] = TRUE], t_now)

\* the scan that returns the head entry or none: an unusable head makes it
\* close and drop the whole list
ScanIdle_HeadOnly(av, cl, t_now) ==
    IF av = <<>>
    THEN [writer |-> None, available |-> av, is_closing |-> cl]
    ELSE LET e == Head(av) IN
         IF ~cl[e.w] /\ (t_now - e.created) <= max_idle_time
         THEN [writer |-> e.w, available |-> Tail(av), is_closing |-> cl]
         ELSE [writer |-> None, available |-> <<>>,
               is_closing |-> [c \in Conns |->
                                 cl[c] \/ \E i \in 1..Len(av) : av[i].w = c]]

\* the scan that gives up at the first entry it cannot use
ScanIdle_StopAtFirst(av, cl, t_now) ==
    IF av = <<>>
    THEN [writer |-> None, available |-> av, is_closing |-> cl]
    ELSE LET e == Head(av) IN
         IF ~cl[e.w] /\ (t_now - e.created) <= max_idle_time
         THEN [writer |-> e.w, available |-> Tail(av), is_closing |-> cl]
         ELSE [writer |-> None, available |-> Tail(av),
               is_closing |-> [cl EXCEPT ![e.w] = TRUE]]

\* The while loop of _ConnectionPool.acquire over the idle list.
RECURSIVE ScanIdle(_, _, _)
ScanIdle(av, cl, t_now) ==
    IF av = <<>>
    THEN [writer |-> None, available |-> av, is_closing |-> cl]
    ELSE LET e == Head(av) IN
         IF ~cl[e.w] /\ (t_now - e.created) <= max_idle_time
         THEN [writer |-> e.w, available |-> Tail(av), is_closing |-> cl]
         ELSE ScanIdle(Tail(av), [cl EXCEPT ![e.w] = TRUE], t_now)

\* release that leaves the writer in _in_use
Release_NoDiscard(av, iu, cl, w, keep_alive) ==
    IF closed \/ ~keep_alive \/ cl[w]
    THEN [available |-> av, in_use |-> iu,
          is_closing |-> [cl EXCEPT ![w] = TRUE]]
    ELSE IF Len(av) < max_size
    THEN [available |-> <<[w |-> w, created |-> now]>> \o av,
          in_use |-> iu, is_closing |-> cl]
    ELSE [available |-> av, in_use |-> iu,
          is_closing |-> [cl EXCEPT ![w] = TRUE]]

\* release without the writer.is_closing() test
Release_IgnoreClosing(av, iu, cl, w, keep_alive) ==
    IF closed \/ ~keep_alive
    THEN [available |-> av, in_use |-> iu \ {w},
          is_closing |-> [cl EXCEPT ![w] = TRUE]]
    ELSE IF Len(av) < max_size
    THEN [available |-> <<[w |-> w, created |-> now]>> \o av,
          in_use |-> iu \ {w}, is_closing |-> cl]
    ELSE [available |-> av, in_use |-> iu \ {w},
          is_closing |-> [cl EXCEPT ![w] = TRUE]]

\* release that on overflow evicts the oldest idle entry and keeps the
\* released connection
Release_EvictOldest(av, iu, cl, w, keep_alive) ==
    IF closed \/ ~keep_alive \/ cl[w]
    THEN [available |-> av, in_use |-> iu \ {w},
          is_closing |-> [cl EXCEPT ![w] = TRUE]]
    ELSE IF Len(av) < max_size
    THEN [available |-> <<[w |-> w, created |-> now]>> \o av,
          in_use |-> iu \ {w}, is_closing |-> cl]
    ELSE [available |-> <<[w |-> w, created |-> now]>>
                          \o SubSeq(av, 1, Len(av) - 1),
          in_use |-> iu \ {w},
          is_closing |-> [cl EXCEPT ![av[Len(av)].w] = TRUE]]

\* release without the size test
Release_NoLimit(av, iu, cl, w, keep_alive) ==
    IF closed \/ ~keep_alive \/ cl[w]
    THEN [available |-> av, in_use |-> iu \ {w},
          is_closing |-> [cl EXCEPT ![w] = TRUE]]
    ELSE [available |-> <<[w |-> w, created |-> now]>> \o av,
          in_use |-> iu \ {w}, is_closing |-> cl]

\* _ConnectionPool.release
Release(av, iu, cl, w, keep_alive) ==
    IF closed \/ ~keep_alive \/ cl[w]
    THEN [available |-> av, in_use |-> iu \ {w},
          is_closing |-> [cl EXCEPT ![w] = TRUE]]
    ELSE IF Len(av) < max_size
    THEN [available |-> <<[w |-> w, created |-> now]>> \o av,
          in_use |-> iu \ {w}, is_closing |-> cl]
    ELSE [available |-> av, in_use |-> iu \ {w},
          is_closing |-> [cl EXCEPT ![w] = TRUE]]

IdleConns(av) == {av[i].w : i \in 1..Len(av)}
\* the writers of the idle list, head first
IdleList(av) == [i \in 1..Len(av) |-> av[i].w]

\* close that closes and clears the idle list only
Close_KeepInUse(av, iu, cl) ==
    [closed |-> TRUE,
     available |-> <<>>,
     in_use |-> iu,
     is_closing |-> [c \in Conns |-> cl[c] \/ c \in IdleConns(av)]]

\* _ConnectionPool.close on the idle list av, the in-use set iu and the
\* writers' closing flags cl
Close(av, iu, cl) ==
    [closed |-> TRUE,
     available |-> <<>>,
     in_use |-> {},
     is_closing |-> [c \in Conns |->
                        cl[c] \/ c \in IdleConns(av) \/ c \in iu]]

\* history record of one release call: its arguments, the pool state it
\* found and the state it left
NoRel == [valid |-> FALSE]
RelRecord(t, w, keep_alive, conn_close, r) ==
    [valid |-> TRUE, task |-> t, w |-> w, keep_alive |-> keep_alive,
     conn_close |-> conn_close,
     was_closing |-> is_closing[w], pool_closed |-> closed,
     idle_before |-> IdleList(available),
     idle_after |-> IdleList(r.available),
     closed_by |-> {c \in Conns : r.is_closing[c] /\ ~is_closing[c]},
     in_use_after |-> w \in r.in_use]

\* no _create_connection call is running in the task
NoCreation == [at |-> "idle"]

\* the last step ended neither a resolution nor a creation
NoEvent == [op |-> "none"]

\* --------------------------------------------------------------- session
\* The request call of task t returns or raises: its frame is gone.
Return(t) ==
    /\ pc' = [pc EXCEPT ![t] = "idle"]
    /\ writer' = [writer EXCEPT ![t] = None]
    /\ max_redirects' = [max_redirects EXCEPT ![t] = 0]
    /\ allow_redirects' = [allow_redirects EXCEPT ![t] = FALSE]

\* the dispatch without the test of Session._closed
Dispatch_NoClosedCheck(t, av, iu, cl, allow, hops) ==
    /\ pools' = TRUE
    /\ IF closed
       THEN /\ Return(t)
            /\ available' = av /\ in_use' = iu /\ is_closing' = cl
            /\ UNCHANGED creating
       ELSE LET s == ScanIdle(av, cl, now) IN
            /\ available' = s.available
            /\ is_closing' = s.is_closing
            /\ writer' = [writer EXCEPT ![t] = s.writer]
            /\ max_redirects' = [max_redirects EXCEPT ![t] = hops]
            /\ allow_redirects' = [allow_redirects EXCEPT ![t] = allow]
            /\ IF s.writer # None
               THEN /\ in_use' = iu \cup {s.writer}
                    /\ pc' = [pc EXCEPT ![t] = "drain"]
                    /\ UNCHANGED creating
               ELSE /\ in_use' = iu
                    /\ creating' = creating + 1
                    /\ pc' = [pc EXCEPT ![t] = "creating"]

\* Session.request from its first line to the first suspension point, run
\* on the pool state (av, iu, cl) left by what the task did before it in
\* the same step: closed check, _get_pool, pool.acquire's idle scan, then
\* either write on a reused connection or the start of a creation.
Dispatch(t, av, iu, cl, allow, hops) ==
    IF s_closed
    THEN /\ Return(t)    \* raise RuntimeError("Session is closed")
         /\ available' = av /\ in_use' = iu /\ is_closing' = cl
         /\ UNCHANGED <<creating, pools>>
    ELSE /\ pools' = TRUE
         /\ IF closed
            THEN /\ Return(t)    \* raise RuntimeError("Pool is closed")
                 /\ available' = av /\ in_use' = iu /\ is_closing' = cl
                 /\ UNCHANGED creating
            ELSE LET s == ScanIdle(av, cl, now) IN
                 /\ available' = s.available
                 /\ is_closing' = s.is_closing
                 /\ writer' = [writer EXCEPT ![t] = s.writer]
                 /\ max_redirects' = [max_redirects EXCEPT ![t] = hops]
                 /\ allow_redirects' = [allow_redirects EXCEPT ![t] = allow]
                 /\ IF s.writer # None
                    THEN /\ in_use' = iu \cup {s.writer}
                         /\ pc' = [pc EXCEPT ![t] = "drain"]
                         /\ UNCHANGED creating
                    ELSE /\ in_use' = iu
                         /\ creating' = creating + 1
                         /\ pc' = [pc EXCEPT ![t] = "creating"]

\* ------------------------------------------------------- request content
\* The request-content view: what one Session.request call, with its
\* redirect hops, puts on the wire.  An optional argument is a sequence of
\* length 0 (Python None) or 1; a header mapping is a function from header
\* name to value (a dict; headers=None and headers={} take the same branch
\* of `if headers:`).
Dict(keys, v) == [k \in keys |-> v]
NoHeaders == Dict({}, "")

\* the header mappings sessions are built with
SessionHeaders ==
    { NoHeaders,
      Dict({"Accept", "User-Agent"}, "sess"),
      Dict({"Connection"}, "sess") }

\* the header mappings callers pass
CallHeaders ==
    { NoHeaders,
      Dict({"Accept"}, "call"),
      Dict({"Host", "Accept-Encoding"}, "call"),
      Dict({"host"}, "call"),
      Dict({"Content-Length"}, "5"),
      Dict({"content-length"}, "5") }

\* Session(headers=..., auth=...)
Sessions == [headers : SessionHeaders, auth : {<<>>, <<"sess">>}]

\* Session(): no default headers, no auth
DefaultSession == [headers |-> NoHeaders, auth |-> <<>>]

\* the JSON value {} a caller passes as json=
EmptyObject == <<>>

\* json.dumps(json, separators=(',', ':')).encode('utf-8'), and orjson.dumps
JsonDumps(j) == CASE j = EmptyObject -> "{}"

\* the arguments callers pass to Session.request
Calls ==
    [method : {"GET", "post"},
     url : {"http://h/a", "http://h:8080/a", "http://h:443/a", "https://h/a",
            "https://h:80/a"},
     headers : CallHeaders,
     params : {<<>>, <<Dict({"q"}, "1")>>},
     data : {<<>>, <<"">>, <<"x">>},
     json : {<<>>, <<EmptyObject>>},
     auth : {<<>>, <<"call">>},
     allow_redirects : BOOLEAN,
     max_redirects : 0..MaxRedirects]

HdrLocEmpty == <<"Location", "">>

\* the responses a server may send to one hop
HopResponses ==
    { [status |-> 200, lines |-> <<>>],
      [status |-> 200, lines |-> <<HdrLoc>>],
      [status |-> 304, lines |-> <<HdrLoc>>],
      [status |-> 301, lines |-> <<HdrLoc>>],
      [status |-> 302, lines |-> <<HdrLoc>>],
      [status |-> 302, lines |-> <<>>],
      [status |-> 302, lines |-> <<HdrLocEmpty>>],
      [status |-> 303, lines |-> <<HdrLoc>>],
      [status |-> 307, lines |-> <<HdrLoc>>],
      [status |-> 308, lines |-> <<HdrLoc>>] }

\* urlparse on the URLs that occur
UrlParse(url) ==
    CASE url = "http://h/a" ->
           [scheme |-> "http", hostname |-> "h", port |-> None, path |-> "/a"]
      [] url = "http://h:8080/a" ->
           [scheme |-> "http", hostname |-> "h", port |-> 8080, path |-> "/a"]
      [] url = "http://h:80/b" ->
           [scheme |-> "http", hostname |-> "h", port |-> 80, path |-> "/b"]
      [] url = "http://h:8080/b" ->
           [scheme |-> "http", hostname |-> "h", port |-> 8080, path |-> "/b"]
      [] url = "http://h:443/a" ->
           [scheme |-> "http", hostname |-> "h", port |-> 443, path |-> "/a"]
      [] url = "http://h:443/b" ->
           [scheme |-> "http", hostname |-> "h", port |-> 443, path |-> "/b"]
      [] url = "https://h/a" ->
           [scheme |-> "https", hostname |-> "h", port |-> None, path |-> "/a"]
      [] url = "https://h:443/b" ->
           [scheme |-> "https", hostname |-> "h", port |-> 443, path |-> "/b"]
      [] url = "https://h:80/a" ->
           [scheme |-> "https", hostname |-> "h", port |-> 80, path |-> "/a"]
      [] url = "https://h:80/b" ->
           [scheme |-> "https", hostname |-> "h", port |-> 80, path |-> "/b"]

\* parsed.port or (443 if scheme == 'https' else 80)
Port(parsed) ==
    IF parsed.port # None THEN parsed.port
    ELSE IF parsed.scheme = "https" THEN 443 ELSE 80

\* f"{host}:{port}" on the values that occur
HostPort(host, port) ==
    CASE host = "h" /\ port = 80 -> "h:80"
      [] host = "h" /\ port = 443 -> "h:443"
      [] host = "h" /\ port = 8080 -> "h:8080"

\* f"{scheme}://{host}:{port}{location}" on the values that occur
UrlJoin(scheme, host, port, location) ==
    CASE scheme = "http" /\ host = "h" /\ port = 80 /\ location = "/b" ->
           "http://h:80/b"
      [] scheme = "http" /\ host = "h" /\ port = 8080 /\ location = "/b" ->
           "http://h:8080/b"
      [] scheme = "http" /\ host = "h" /\ port = 443 /\ location = "/b" ->
           "http://h:443/b"
      [] scheme = "https" /\ host = "h" /\ port = 443 /\ location = "/b" ->
           "https://h:443/b"
      [] scheme = "https" /\ host = "h" /\ port = 80 /\ location = "/b" ->
           "https://h:80/b"

\* location.startswith('http') on the values that occur
StartsWithHttp(location) ==
    location \in {"http://h/a", "http://h:8080/a", "http://h:80/b",
                  "http://h:8080/b", "http://h:443/a", "http://h:443/b",
                  "https://h/a", "https://h:443/b", "https://h:80/a",
                  "https://h:80/b"}

\* str.upper on the methods that occur
Upper(m) == CASE m = "post" -> "POST" [] OTHER -> m

\* str(len(body)) on the bodies that occur
StrLen(b) == CASE b = "" -> "0" [] b = "x" -> "1" [] b = "{}" -> "2"

\* truth value of an optional bytes object: None and b"" are false
Truthy(body) == body # <<>> /\ body[1] # ""

\* req_headers[k] = v
SetItem(h, k, v) == [x \in DOMAIN h \cup {k} |-> IF x = k THEN v ELSE h[x]]

\* if k not in req_headers: req_headers[k] = v
SetDefault(h, k, v) == IF k \in DOMAIN h THEN h ELSE SetItem(h, k, v)

\* the merge with the session's entry winning on a duplicate key
MergeHeaders_SessionWins(d, h) ==
    [k \in DOMAIN d \cup DOMAIN h |-> IF k \in DOMAIN d THEN d[k] ELSE h[k]]

\* {**self._default_headers, **headers}
MergeHeaders(d, h) ==
    [k \in DOMAIN d \cup DOMAIN h |-> IF k \in DOMAIN h THEN h[k] ELSE d[k]]

\* req_headers is the session's own mapping when no headers are passed
MergeObject_NoCopy(headers) ==
    IF headers # NoHeaders THEN "req" ELSE "default"

\* the mapping object req_headers names after the merge: "default" is
\* self._default_headers itself, "caller" the headers argument itself and
\* "req" a dict of the call's own; {**d, **h} and d.copy() both build one
MergeObject(headers) == "req"

\* _SimpleHTTPBuilder.build: request line, one line per header, body
Build(method, path, headers, body) ==
    [method |-> method,
     path |-> path,
     lines |-> {<<k, headers[k]>> : k \in DOMAIN headers},
     body |-> IF Truthy(body) THEN body[1] ELSE ""]

\* urlencode(params) on the mappings that occur
UrlEncode(d) == CASE d = Dict({"q"}, "1") -> "q=1"

\* path + sep + query on the values that occur; none of the paths holds a
\* '?', so sep is '?'
AddQuery(path, query) ==
    CASE path = "/a" /\ query = "q=1" -> "/a?q=1"
      [] path = "/b" /\ query = "q=1" -> "/b?q=1"

\* Session.request from URL parsing to the serialized bytes, for the
\* arguments a on the session sess: the request built, the auth objects
\* whose apply() was called on its headers, and the mapping object the
\* call wrote its headers to with what the call itself left in it
Prepare(sess, a) ==
    LET parsed == UrlParse(a.url)
        port == Port(parsed)
        path == IF a.params # <<>> /\ a.params[1] # NoHeaders
                THEN AddQuery(parsed.path, UrlEncode(a.params[1]))
                ELSE parsed.path
        h0 == MergeHeaders(sess.headers, a.headers)
        h1 == SetDefault(h0, "Host",
                         IF port \in {80, 443} THEN parsed.hostname
                         ELSE HostPort(parsed.hostname, port))
        h2 == SetDefault(h1, "Connection", "keep-alive")
        h3 == SetDefault(h2, "Accept", "*/*")
        h4 == SetDefault(h3, "Accept-Encoding", "identity")
        h5 == SetDefault(h4, "User-Agent", "arequest/0.2.0")
        request_auth == IF a.auth # <<>> THEN a.auth ELSE sess.auth
        body == IF a.json # <<>> THEN <<JsonDumps(a.json[1])>> ELSE a.data
        h6 == IF a.json # <<>>
              THEN SetItem(h5, "Content-Type", "application/json")
              ELSE h5
        h7 == IF Truthy(body)
              THEN SetItem(h6, "Content-Length", StrLen(body[1]))
              ELSE h6
    IN [args |-> a,
        request |-> Build(Upper(a.method), path, h7, body),
        applied |-> request_auth,
        object |-> MergeObject(a.headers),
        req_headers |-> h7]

\* self._default_headers after the call p: every write of the call goes
\* to the object req_headers names, as does each write of auth.apply,
\* which is handed that object (`headers = req_headers`)
SessionAfter(sess, p) ==
    IF p.object = "default" THEN [sess EXCEPT !.headers = p.req_headers]
    ELSE sess

\* the caller's headers mapping after the call p
HeadersAfter(p) ==
    IF p.object = "caller" THEN p.req_headers ELSE p.args.headers

\* the recursive call that keeps the method on a 303
Redirected_KeepMethod(a, p) ==
    LET parsed == UrlParse(a.url)
        location == IF StartsWithHttp(p.location) THEN p.location
                    ELSE UrlJoin(parsed.scheme, parsed.hostname,
                                 Port(parsed), p.location)
    IN [method |-> a.method,
        url |-> location,
        headers |-> a.headers,
        params |-> <<>>,
        data |-> <<>>,
        json |-> <<>>,
        auth |-> <<>>,
        allow_redirects |-> TRUE,
        max_redirects |-> a.max_redirects - 1]

\* the recursive call that passes max_redirects on unchanged
Redirected_NoDecrement(a, p) ==
    LET parsed == UrlParse(a.url)
        location == IF StartsWithHttp(p.location) THEN p.location
                    ELSE UrlJoin(parsed.scheme, parsed.hostname,
                                 Port(parsed), p.location)
    IN [method |-> IF p.status_code = 303 THEN "GET" ELSE a.method,
        url |-> location,
        headers |-> a.headers,
        params |-> <<>>,
        data |-> <<>>,
        json |-> <<>>,
        auth |-> <<>>,
        allow_redirects |-> TRUE,
        max_redirects |-> a.max_redirects]

\* the recursive call that passes params, data and json on
Redirected_KeepBody(a, p) ==
    LET parsed == UrlParse(a.url)
        location == IF StartsWithHttp(p.location) THEN p.location
                    ELSE UrlJoin(parsed.scheme, parsed.hostname,
                                 Port(parsed), p.location)
    IN [method |-> IF p.status_code = 303 THEN "GET" ELSE a.method,
        url |-> location,
        headers |-> a.headers,
        params |-> a.params,
        data |-> a.data,
        json |-> a.json,
        auth |-> <<>>,
        allow_redirects |-> TRUE,
        max_redirects |-> a.max_redirects - 1]

\* the arguments of the recursive self.request call for a redirect: the
\* call passes method, location, headers, timeout, verify, allow_redirects
\* and max_redirects, so data, json, params and auth take their defaults
Redirected(a, p) ==
    LET parsed == UrlParse(a.url)
        location == IF StartsWithHttp(p.location) THEN p.location
                    ELSE UrlJoin(parsed.scheme, parsed.hostname,
                                 Port(parsed), p.location)
    IN [method |-> IF p.status_code = 303 THEN "GET" ELSE a.method,
        url |-> location,
        headers |-> a.headers,
        params |-> <<>>,
        data |-> <<>>,
        json |-> <<>>,
        auth |-> <<>>,
        allow_redirects |-> TRUE,
        max_redirects |-> a.max_redirects - 1]

\* ------------------------------------------------------------------ init
\* the pool view after Session() and before any request
InitPool ==
    /\ now = 0
    /\ available = <<>>
    /\ in_use = {}
    /\ closed = FALSE
    /\ creating = 0
    /\ is_closing = [c \in Conns |-> FALSE]
    /\ made = 0
    /\ s_closed = FALSE
    /\ pools = FALSE
    /\ pc = [t \in Tasks |-> "idle"]
    /\ writer = [t \in Tasks |-> None]
    /\ max_redirects = [t \in Tasks |-> 0]
    /\ allow_redirects = [t \in Tasks |-> FALSE]
    /\ default_timeout = TRUE
    /\ rel = NoRel
    /\ dns_cache = <<>>
    /\ dns_expire = 0
    /\ creations = [t \in Tasks |-> NoCreation]
    /\ dnshist = NoEvent
    /\ outer = [t \in Tasks |-> <<>>]

\* no Session.request call has been made
InitCallIdle ==
    /\ args = <<>>
    /\ wire = <<>>
    /\ chain = <<>>
    /\ result = <<>>

\* no response is being parsed
InitParseIdle ==
    /\ served = <<>>
    /\ reader = <<>>
    /\ parser = <<>>

\* no gather call is running
InitGatherIdle == gather = <<>>

\* the view by pool key is not in use
InitKeysIdle ==
    /\ pools_by_key = <<>>
    /\ calls = <<>>
    /\ keyhist = <<>>

\* the views beside the one a specification is about
InitViewsIdle == InitParseIdle /\ InitGatherIdle /\ InitKeysIdle

Init == InitPool /\ session = DefaultSession /\ InitCallIdle /\ InitViewsIdle

\* --------------------------------------------------------------- actions
\* A caller starts Session.request(...) in task t.
Request(t) ==
    /\ pc[t] = "idle"
    /\ \E allow \in BOOLEAN :
          Dispatch(t, available, in_use, is_closing, allow, MaxRedirects)
    /\ rel' = NoRel
    /\ UNCHANGED <<now, closed, made, s_closed, default_timeout>>
    /\ UNCHANGED callvars

\* _create_connection returns: acquire adds the new writer to _in_use,
\* its finally block decrements _creating, request writes the bytes.
CreateDone(t) ==
    /\ pc[t] = "creating"
    /\ made < MaxConns
    /\ made' = made + 1
    /\ in_use' = in_use \cup {made + 1}
    /\ creating' = creating - 1
    /\ writer' = [writer EXCEPT ![t] = made + 1]
    /\ pc' = [pc EXCEPT ![t] = "drain"]
    /\ rel' = NoRel
    /\ UNCHANGED <<now, available, closed, is_closing, s_closed, pools,
                   max_redirects, allow_redirects, default_timeout>>
    /\ UNCHANGED callvars

\* _create_connection raises (DNS failure, every address refused).
CreateFail(t) ==
    /\ pc[t] = "creating"
    /\ creating' = creating - 1
    /\ Return(t)
    /\ rel' = NoRel
    /\ UNCHANGED <<now, available, in_use, closed, is_closing, made, s_closed,
                   pools, default_timeout>>
    /\ UNCHANGED callvars

\* a timeout that also fires while the request holds a connection
CreateTimeout_Anytime(t) ==
    \/ /\ pc[t] = "creating"
       /\ default_timeout
       /\ creating' = creating - 1
       /\ Return(t)
       /\ rel' = NoRel
       /\ UNCHANGED <<now, available, in_use, closed, is_closing, made,
                      s_closed, pools, default_timeout>>
       /\ UNCHANGED callvars
    \/ /\ pc[t] \in {"drain", "parse"}
       /\ default_timeout
       /\ Return(t)
       /\ rel' = NoRel
       /\ in_use' = in_use \ {writer[t]}
       /\ is_closing' = [is_closing EXCEPT ![writer[t]] = TRUE]
       /\ UNCHANGED <<now, available, closed, creating, made, s_closed,
                      pools, default_timeout>>
       /\ UNCHANGED callvars

\* asyncio.wait_for gives up on _create_connection: acquire raises
\* TimeoutError, which request re-raises with no connection to release.
CreateTimeout(t) ==
    /\ pc[t] = "creating"
    /\ default_timeout
    /\ creating' = creating - 1
    /\ Return(t)
    /\ rel' = NoRel
    /\ UNCHANGED <<now, available, in_use, closed, is_closing, made, s_closed,
                   pools, default_timeout>>
    /\ UNCHANGED callvars

\* await writer.drain() returns; the task goes on to parser.parse.
DrainOk(t) ==
    /\ pc[t] = "drain"
    /\ ~is_closing[writer[t]]
    /\ pc' = [pc EXCEPT ![t] = "parse"]
    /\ rel' = NoRel
    /\ UNCHANGED <<now, available, in_use, closed, creating, is_closing, made,
                   s_closed, pools, writer, max_redirects, allow_redirects,
                   default_timeout>>
    /\ UNCHANGED callvars

\* except clauses that hand the connection back as reusable
Fail_KeepAlive(t) ==
    LET r == Release(available, in_use, is_closing, writer[t], TRUE) IN
    /\ available' = r.available
    /\ in_use' = r.in_use
    /\ is_closing' = r.is_closing
    /\ rel' = RelRecord(t, writer[t], TRUE, FALSE, r)
    /\ Return(t)
    /\ UNCHANGED <<now, closed, creating, made, s_closed, pools,
                   default_timeout>>
    /\ UNCHANGED callvars

\* except clauses that release the connection and dispatch the request
\* again
Fail_Retry(t) ==
    LET r == Release(available, in_use, is_closing, writer[t], FALSE) IN
    /\ rel' = RelRecord(t, writer[t], FALSE, FALSE, r)
    /\ Dispatch(t, r.available, r.in_use, r.is_closing, allow_redirects[t],
                max_redirects[t])
    /\ UNCHANGED <<now, closed, made, s_closed, default_timeout>>
    /\ UNCHANGED callvars

\* The except clauses of Session.request: release(keep_alive=False), raise.
Fail(t) ==
    LET r == Release(available, in_use, is_closing, writer[t], FALSE) IN
    /\ available' = r.available
    /\ in_use' = r.in_use
    /\ is_closing' = r.is_closing
    /\ rel' = RelRecord(t, writer[t], FALSE, FALSE, r)
    /\ Return(t)
    /\ UNCHANGED <<now, closed, creating, made, s_closed, pools,
                   default_timeout>>
    /\ UNCHANGED callvars

\* await writer.drain() raises.
DrainFail(t) ==
    /\ pc[t] = "drain"
    /\ Fail(t)

\* parser.parse raises (short read, malformed status line, bad chunk size).
ParseFail(t) ==
    /\ pc[t] = "parse"
    /\ Fail(t)

\* the response carries a Connection header with value close, in some
\* letter case
HasConnClose(lines) ==
    \E i \in 1..Len(lines) :
        lines[i][1] \in {"Connection", "connection"}
            /\ lines[i][2] \in {"close", "Close"}

\* the redirect test with 303 missing from the status tuple
Follow_No303(allow, hops, p) ==
    /\ allow
    /\ p.status_code \in {301, 302, 307, 308}
    /\ hops > 0
    /\ p.location # ""

\* the redirect test of Session.request
Follow(allow, hops, p) ==
    /\ allow
    /\ p.status_code \in {301, 302, 303, 307, 308}
    /\ hops > 0
    /\ p.location # ""

\* parser.parse returns: release with the parser's keep_alive, then either
\* return the response or re-enter request for the redirect target.
ParseOk(t) ==
    /\ pc[t] = "parse"
    /\ \E resp \in Responses :
         LET p == Parse(resp)
             r == Release(available, in_use, is_closing, writer[t],
                          p.keep_alive)
         IN
         /\ rel' = RelRecord(t, writer[t], p.keep_alive,
                             HasConnClose(resp.lines), r)
         /\ IF Follow(allow_redirects[t], max_redirects[t], p)
            THEN Dispatch(t, r.available, r.in_use, r.is_closing, TRUE,
                          max_redirects[t] - 1)
            ELSE /\ available' = r.available
                 /\ in_use' = r.in_use
                 /\ is_closing' = r.is_closing
                 /\ Return(t)
                 /\ UNCHANGED <<creating, pools>>
    /\ UNCHANGED <<now, closed, made, s_closed, default_timeout>>
    /\ UNCHANGED callvars

\* The task running the request is cancelled while suspended: the
\* CancelledError (a BaseException) passes both except clauses of request;
\* only acquire's finally block runs.
Cancel(t) ==
    /\ pc[t] \in {"creating", "drain", "parse"}
    /\ creating' = IF pc[t] = "creating" THEN creating - 1 ELSE creating
    /\ Return(t)
    /\ rel' = NoRel
    /\ UNCHANGED <<now, available, in_use, closed, is_closing, made, s_closed,
                   pools, default_timeout>>
    /\ UNCHANGED callvars

\* Session.close: returns at once on a closed session; otherwise sets the
\* flag, runs _ConnectionPool.close on the registered pool and clears the
\* registry (pool.close has no suspension point, so this is one step).
SessionClose ==
    /\ IF s_closed
       THEN UNCHANGED <<s_closed, closed, is_closing, available, in_use,
                        pools>>
       ELSE /\ s_closed' = TRUE
            /\ IF pools
               THEN LET r == Close(available, in_use, is_closing) IN
                    /\ closed' = r.closed
                    /\ is_closing' = r.is_closing
                    /\ available' = r.available
                    /\ in_use' = r.in_use
               ELSE UNCHANGED <<closed, is_closing, available, in_use>>
            /\ pools' = FALSE
    /\ rel' = NoRel
    /\ UNCHANGED <<now, creating, made, pc, writer, max_redirects,
                   allow_redirects, default_timeout>>
    /\ UNCHANGED callvars

\* The transport of an open connection goes down (reset by the peer, TLS
\* EOF, socket error): writer.is_closing() becomes true.
TransportLost(c) ==
    /\ c <= made
    /\ ~is_closing[c]
    /\ is_closing' = [is_closing EXCEPT ![c] = TRUE]
    /\ rel' = NoRel
    /\ UNCHANGED <<now, available, in_use, closed, creating, made, s_closed,
                   pools, pc, writer, max_redirects, allow_redirects, default_timeout>>
    /\ UNCHANGED callvars

\* The monotonic clock advances.
Tick ==
    /\ now < MaxTime
    /\ now' = now + 1
    /\ rel' = NoRel
    /\ UNCHANGED <<available, in_use, closed, creating, is_closing, made,
                   s_closed, pools, pc, writer, max_redirects,
                   allow_redirects, default_timeout>>
    /\ UNCHANGED callvars

Next ==
    \/ \E t \in Tasks : Request(t)
    \/ \E t \in Tasks : CreateDone(t)
    \/ \E t \in Tasks : CreateFail(t)
    \/ \E t \in Tasks : CreateTimeout(t)
    \/ \E t \in Tasks : DrainOk(t)
    \/ \E t \in Tasks : DrainFail(t)
    \/ \E t \in Tasks : ParseOk(t)
    \/ \E t \in Tasks : ParseFail(t)
    \/ \E t \in Tasks : Cancel(t)
    \/ SessionClose
    \/ \E c \in Conns : TransportLost(c)
    \/ Tick

Spec == Init /\ [][Next]_vars

\* ------------------------------------------------ the pool used directly
\* A caller drives the _ConnectionPool through its own methods: acquire,
\* release and close in any order, close any number of times.  A task at
\* "creating" is inside acquire, a task at "drain" holds the connection
\* acquire returned.

\* history record of a direct pool call that raised
Raised(t, msg) == [valid |-> FALSE, task |-> t, error |-> msg]

\* history record of a direct call of close, on a pool that was closed
\* already (again) or not
Closing(again) == [valid |-> FALSE, op |-> "close", again |-> again]

\* history record of a direct call of acquire on an open pool: the idle
\* list it found
Scanned(t, av) ==
    [valid |-> FALSE, op |-> "acquire", task |-> t, idle_before |-> av]

\* acquire that waits while max_size connections are in use or being opened
Acquire_Bounded(t) ==
    /\ pc[t] = "idle"
    /\ IF closed
       THEN /\ rel' = Raised(t, "Pool is closed")
            /\ UNCHANGED <<available, in_use, is_closing, creating, pc,
                           writer>>
       ELSE LET s == ScanIdle(available, is_closing, now) IN
            /\ s.writer # None \/ Cardinality(in_use) + creating < max_size
            /\ available' = s.available
            /\ is_closing' = s.is_closing
            /\ writer' = [writer EXCEPT ![t] = s.writer]
            /\ IF s.writer # None
               THEN /\ in_use' = in_use \cup {s.writer}
                    /\ pc' = [pc EXCEPT ![t] = "drain"]
                    /\ UNCHANGED creating
               ELSE /\ creating' = creating + 1
                    /\ pc' = [pc EXCEPT ![t] = "creating"]
                    /\ UNCHANGED in_use
            /\ rel' = Scanned(t, available)
    /\ UNCHANGED <<now, closed, made, s_closed, pools, max_redirects,
                   allow_redirects, default_timeout>>
    /\ UNCHANGED callvars

\* acquire without the test of _closed
Acquire_NoClosedCheck(t) ==
    /\ pc[t] = "idle"
    /\ LET s == ScanIdle(available, is_closing, now) IN
       /\ available' = s.available
       /\ is_closing' = s.is_closing
       /\ writer' = [writer EXCEPT ![t] = s.writer]
       /\ IF s.writer # None
          THEN /\ in_use' = in_use \cup {s.writer}
               /\ pc' = [pc EXCEPT ![t] = "drain"]
               /\ UNCHANGED creating
          ELSE /\ creating' = creating + 1
               /\ pc' = [pc EXCEPT ![t] = "creating"]
               /\ UNCHANGED in_use
       /\ rel' = Scanned(t, available)
    /\ UNCHANGED <<now, closed, made, s_closed, pools, max_redirects,
                   allow_redirects, default_timeout>>
    /\ UNCHANGED callvars

\* _ConnectionPool.acquire up to its first suspension point: the closed
\* test, the idle scan, and the start of a creation
Acquire(t) ==
    /\ pc[t] = "idle"
    /\ IF closed
       THEN /\ rel' = Raised(t, "Pool is closed")
            /\ UNCHANGED <<available, in_use, is_closing, creating, pc,
                           writer>>
       ELSE LET s == ScanIdle(available, is_closing, now) IN
            /\ available' = s.available
            /\ is_closing' = s.is_closing
            /\ writer' = [writer EXCEPT ![t] = s.writer]
            /\ IF s.writer # None
               THEN /\ in_use' = in_use \cup {s.writer}
                    /\ pc' = [pc EXCEPT ![t] = "drain"]
                    /\ UNCHANGED creating
               ELSE /\ creating' = creating + 1
                    /\ pc' = [pc EXCEPT ![t] = "creating"]
                    /\ UNCHANGED in_use
            /\ rel' = Scanned(t, available)
    /\ UNCHANGED <<now, closed, made, s_closed, pools, max_redirects,
                   allow_redirects, default_timeout>>
    /\ UNCHANGED callvars

\* the timeout of acquire without the finally block
AcquireTimeout_NoFinally(t) ==
    /\ pc[t] = "creating"
    /\ default_timeout
    /\ Return(t)
    /\ rel' = Raised(t, "Connection timeout")
    /\ UNCHANGED <<now, available, in_use, closed, creating, is_closing, made,
                   s_closed, pools, default_timeout>>
    /\ UNCHANGED callvars

\* asyncio.wait_for gives up on _create_connection inside acquire: the
\* finally block decrements _creating and acquire raises TimeoutError
AcquireTimeout(t) ==
    /\ pc[t] = "creating"
    /\ default_timeout
    /\ creating' = creating - 1
    /\ Return(t)
    /\ rel' = Raised(t, "Connection timeout")
    /\ UNCHANGED <<now, available, in_use, closed, is_closing, made, s_closed,
                   pools, default_timeout>>
    /\ UNCHANGED callvars

\* the holder calls pool.release(reader, writer, keep_alive)
PoolRelease(t) ==
    /\ pc[t] = "drain"
    /\ \E keep_alive \in BOOLEAN :
         LET r == Release(available, in_use, is_closing, writer[t],
                          keep_alive)
         IN
         /\ available' = r.available
         /\ in_use' = r.in_use
         /\ is_closing' = r.is_closing
         /\ rel' = RelRecord(t, writer[t], keep_alive, FALSE, r)
    /\ Return(t)
    /\ UNCHANGED <<now, closed, creating, made, s_closed, pools,
                   default_timeout>>
    /\ UNCHANGED callvars

\* a caller awaits pool.close()
PoolClose ==
    /\ LET r == Close(available, in_use, is_closing) IN
       /\ closed' = r.closed
       /\ available' = r.available
       /\ in_use' = r.in_use
       /\ is_closing' = r.is_closing
    /\ rel' = Closing(closed)
    /\ UNCHANGED <<now, creating, made, s_closed, pools, pc, writer,
                   max_redirects, allow_redirects, default_timeout>>
    /\ UNCHANGED callvars

NextPool ==
    \/ \E t \in Tasks : Acquire(t)
    \/ \E t \in Tasks : CreateDone(t)
    \/ \E t \in Tasks : CreateFail(t)
    \/ \E t \in Tasks : AcquireTimeout(t)
    \/ \E t \in Tasks : PoolRelease(t)
    \/ PoolClose
    \/ \E c \in Conns : TransportLost(c)
    \/ Tick

SpecPool == Init /\ [][NextPool]_vars

\* ----------------------------------------------- the scan of a long list
\* The pool used directly through acquire alone, started with an idle list
\* left by earlier releases on a pool whose max_size is not below MaxConns:
\* any connections in any order, the entry nearer the head released no
\* earlier than the one behind it, each one open or closed by its peer.
IdleLists(t_now) ==
    UNION {
      { av \in [1..n -> [w : 1..n, created : 0..t_now]] :
          /\ \A i, j \in 1..n : i < j => /\ av[i].w # av[j].w
                                         /\ av[i].created >= av[j].created }
      : n \in 0..MaxConns }

InitScan ==
    /\ now \in 0..MaxTime
    /\ available \in IdleLists(now)
    /\ made = Len(available)
    /\ is_closing \in {cl \in [Conns -> BOOLEAN] :
                          \A c \in Conns : cl[c] => c <= Len(available)}
    /\ in_use = {}
    /\ closed = FALSE
    /\ creating = 0
    /\ s_closed = FALSE
    /\ pools = FALSE
    /\ pc = [t \in Tasks |-> "idle"]
    /\ writer = [t \in Tasks |-> None]
    /\ max_redirects = [t \in Tasks |-> 0]
    /\ allow_redirects = [t \in Tasks |-> FALSE]
    /\ default_timeout = TRUE
    /\ rel = NoRel
    /\ dns_cache = <<>>
    /\ dns_expire = 0
    /\ creations = [t \in Tasks |-> NoCreation]
    /\ dnshist = NoEvent
    /\ outer = [t \in Tasks |-> <<>>]

NextScan ==
    \/ \E t \in Tasks : Acquire(t)
    \/ \E t \in Tasks : CreateDone(t)
    \/ \E t \in Tasks : CreateFail(t)
    \/ \E t \in Tasks : AcquireTimeout(t)
    \/ \E c \in Conns : TransportLost(c)
    \/ Tick

\* the pool with its idle list, outside any request
InitSpecScan ==
    InitScan /\ session = DefaultSession /\ InitCallIdle /\ InitViewsIdle

SpecScan == InitSpecScan /\ [][NextScan]_vars

\* ----------------------------------------------- the order of the idle list
\* The pool used directly through acquire and release, built with a
\* max_size that is not below MaxConns, so that every connection released
\* with keep-alive on an open pool is kept and the idle list grows beyond
\* one entry.

\* release that puts a kept connection at the tail of the idle list
ReleaseSized_Tail(av, iu, cl, w, keep_alive, size) ==
    IF closed \/ ~keep_alive \/ cl[w]
    THEN [available |-> av, in_use |-> iu \ {w},
          is_closing |-> [cl EXCEPT ![w] = TRUE]]
    ELSE IF Len(av) < size
    THEN [available |-> av \o <<[w |-> w, created |-> now]>>,
          in_use |-> iu \ {w}, is_closing |-> cl]
    ELSE [available |-> av, in_use |-> iu \ {w},
          is_closing |-> [cl EXCEPT ![w] = TRUE]]

\* _ConnectionPool.release on a pool built with max_size=size
ReleaseSized(av, iu, cl, w, keep_alive, size) ==
    IF closed \/ ~keep_alive \/ cl[w]
    THEN [available |-> av, in_use |-> iu \ {w},
          is_closing |-> [cl EXCEPT ![w] = TRUE]]
    ELSE IF Len(av) < size
    THEN [available |-> <<[w |-> w, created |-> now]>> \o av,
          in_use |-> iu \ {w}, is_closing |-> cl]
    ELSE [available |-> av, in_use |-> iu \ {w},
          is_closing |-> [cl EXCEPT ![w] = TRUE]]

\* the holder calls pool.release(reader, writer, keep_alive) on the pool
\* built with max_size=MaxConns
LifoRelease(t) ==
    /\ pc[t] = "drain"
    /\ \E keep_alive \in BOOLEAN :
         LET r == ReleaseSized(available, in_use, is_closing, writer[t],
                               keep_alive, MaxConns)
         IN
         /\ available' = r.available
         /\ in_use' = r.in_use
         /\ is_closing' = r.is_closing
         /\ rel' = RelRecord(t, writer[t], keep_alive, FALSE, r)
    /\ Return(t)
    /\ UNCHANGED <<now, closed, creating, made, s_closed, pools,
                   default_timeout>>
    /\ UNCHANGED callvars

NextLifo ==
    \/ \E t \in Tasks : Acquire(t)
    \/ \E t \in Tasks : CreateDone(t)
    \/ \E t \in Tasks : CreateFail(t)
    \/ \E t \in Tasks : LifoRelease(t)
    \/ \E c \in Conns : TransportLost(c)
    \/ Tick

SpecLifo == Init /\ [][NextLifo]_vars

\* ------------------------------------------------- the request and its hops
\* One Session.request call on a session built with any of the header
\* mappings and auth objects of Sessions, against a server that answers every
\* hop: what is serialized for each hop and which response comes back.  The
\* connections the hops travel on are the pool view's concern and stay as
\* InitPool leaves them.
poolvars == <<now, available, in_use, closed, creating, is_closing, made,
              s_closed, pools, pc, writer, max_redirects, allow_redirects,
              default_timeout, rel>>

InitCall ==
    InitPool /\ session \in Sessions /\ InitCallIdle /\ InitViewsIdle

\* Session.request runs with the arguments a: it serializes the request
\* and writes it, then waits for the response.
Send(a) ==
    LET p == Prepare(session, a) IN
    /\ args' = <<[a EXCEPT !.headers = HeadersAfter(p)]>>
    /\ wire' = Append(wire, p)
    /\ session' = SessionAfter(session, p)

\* The caller calls session.request(...).
CallRequest ==
    /\ wire = <<>>
    /\ \E a \in Calls : Send(a)
    /\ UNCHANGED <<chain, result>>
    /\ UNCHANGED <<poolvars, parsevars, gather, keyvars, dnsvars, outer>>

\* parser.parse returns the response of the hop: the call either re-enters
\* request with the arguments of the redirect or returns the response.
Respond ==
    /\ args # <<>>
    /\ \E resp \in HopResponses :
         LET a == args[1]
             p == Parse(resp)
         IN
         /\ chain' = Append(chain, p)
         /\ IF Follow(a.allow_redirects, a.max_redirects, p)
            THEN /\ Send(Redirected(a, p))
                 /\ UNCHANGED result
            ELSE /\ args' = <<>>
                 /\ result' = <<p>>
                 /\ UNCHANGED <<wire, session>>
    /\ UNCHANGED <<poolvars, parsevars, gather, keyvars, dnsvars, outer>>

NextCall ==
    \/ CallRequest
    \/ Respond

SpecCall == InitCall /\ [][NextCall]_vars

\* ----------------------------------------------------- the silent server
\* The server accepts every TCP connection and then sends nothing and keeps
\* the connection open: connecting succeeds (or runs into the timeout of
\* asyncio.wait_for), the write drains, and no response byte, EOF or reset
\* ever reaches parser.parse.  The caller may cancel.
NextSilent ==
    \/ \E t \in Tasks : Request(t)
    \/ \E t \in Tasks : CreateDone(t)
    \/ \E t \in Tasks : CreateTimeout(t)
    \/ \E t \in Tasks : DrainOk(t)
    \/ \E t \in Tasks : Cancel(t)
    \/ Tick

\* The event loop runs every callback that is ready: a connect that the
\* server accepts completes unless the timer of wait_for fires first, and a
\* drain with room in the socket buffer returns.
SpecSilent ==
    /\ Init
    /\ [][NextSilent]_vars
    /\ \A t \in Tasks :
          /\ WF_vars(CreateDone(t) \/ CreateTimeout(t))
          /\ WF_vars(DrainOk(t))

\* --------------------------------------------------- the response parser
\* A byte is written as a string: "CR" and "LF" are the two line-end bytes,
\* ";" the extension separator, "0".."3" digits, "x" and "y" payload bytes.
MaxChunks == 2       \* chunks with payload the server sends in one body

CRLF == <<"CR", "LF">>

\* the payloads a server puts in one chunk
Payloads == {<<"x">>, <<"x", "y">>}

\* the framing header lines of a response, in the order sent
FramingLines ==
    { <<>>,
      << <<"Content-Length", "0">> >>,
      << <<"Content-Length", "1">> >>,
      << <<"content-length", "2">> >>,
      << <<"Transfer-Encoding", "chunked">> >>,
      << <<"transfer-encoding", "gzip, Chunked">> >>,
      << <<"Transfer-Encoding", "identity">> >>,
      << <<"Content-Length", "1">>, <<"Transfer-Encoding", "chunked">> >>,
      << <<"Transfer-Encoding", "chunked">>, <<"Content-Length", "2">> >> }

\* bytes.lower() on the framing header names
LowerName(k) ==
    CASE k = "Content-Length" -> "content-length"
      [] k = "Transfer-Encoding" -> "transfer-encoding"
      [] OTHER -> k

\* b'chunked' in line[colon+1:].lower(), on the values that occur
ContainsChunked(v) == v \in {"chunked", "gzip, Chunked"}

\* int(value) on the Content-Length values that occur
ParseInt(v) == CASE v = "0" -> 0 [] v = "1" -> 1 [] v = "2" -> 2 [] v = "3" -> 3

\* the value of one hexadecimal digit, -1 for any other byte
HexDigit(b) ==
    CASE b = "0" -> 0 [] b = "1" -> 1 [] b = "2" -> 2 [] b = "3" -> 3
      [] OTHER -> -1

\* int(digits, 16): -1 stands for the ValueError
RECURSIVE HexInt(_)
HexInt(digits) ==
    IF digits = <<>> THEN -1
    ELSE LET d == HexDigit(digits[Len(digits)]) IN
         IF d = -1 THEN -1
         ELSE IF Len(digits) = 1 THEN d
         ELSE LET hi == HexInt(SubSeq(digits, 1, Len(digits) - 1)) IN
              IF hi = -1 THEN -1 ELSE hi * 16 + d

\* bytes.strip(): leading and trailing line-end bytes removed
RECURSIVE Strip(_)
Strip(line) ==
    IF line = <<>> THEN line
    ELSE IF Head(line) \in {"CR", "LF"} THEN Strip(Tail(line))
    ELSE IF line[Len(line)] \in {"CR", "LF"}
         THEN Strip(SubSeq(line, 1, Len(line) - 1))
    ELSE line

\* line.split(b';')[0]
RECURSIVE BeforeSemicolon(_)
BeforeSemicolon(line) ==
    IF line = <<>> \/ Head(line) = ";" THEN <<>>
    ELSE <<Head(line)>> \o BeforeSemicolon(Tail(line))

\* int(size_line.strip().split(b';')[0], 16)
ChunkSize(size_line) == HexInt(BeforeSemicolon(Strip(size_line)))

\* the length of what reader.readline() returns: through the first LF; 0
\* when the buffer holds no LF
RECURSIVE LineLen(_)
LineLen(buf) ==
    IF buf = <<>> THEN 0
    ELSE IF Head(buf) = "LF" THEN 1
    ELSE LET n == LineLen(Tail(buf)) IN IF n = 0 THEN 0 ELSE n + 1

\* b''.join(chunks)
RECURSIVE Join(_)
Join(chunks) ==
    IF chunks = <<>> THEN <<>> ELSE Head(chunks) \o Join(Tail(chunks))

\* the header loop of parse on the framing headers: the parser after the
\* lines, each line setting _content_length or _chunked
RECURSIVE ParseFraming(_, _)
ParseFraming(lines, p) ==
    IF lines = <<>> THEN p
    ELSE LET key == LowerName(Head(lines)[1])
             value == Head(lines)[2]
         IN ParseFraming(Tail(lines),
              IF key = "content-length"
              THEN [p EXCEPT !._content_length = <<ParseInt(value)>>]
              ELSE IF key = "transfer-encoding" /\ ContainsChunked(value)
              THEN [p EXCEPT !._chunked = TRUE]
              ELSE p)

\* the server's encoding of one chunk: size in hex, extension, CRLF,
\* payload, CRLF
EncodeChunk(payload, ext) ==
    <<CASE Len(payload) = 1 -> "1" [] Len(payload) = 2 -> "2">>
      \o (IF ext THEN <<";", "x">> ELSE <<>>) \o CRLF \o payload \o CRLF

\* the server's encoding of a chunked body: the chunks, the zero-size
\* chunk and the empty trailer
RECURSIVE EncodeChunked(_, _)
EncodeChunked(payloads, ext) ==
    IF payloads = <<>>
    THEN <<"0">> \o (IF ext THEN <<";", "x">> ELSE <<>>) \o CRLF \o CRLF
    ELSE EncodeChunk(Head(payloads), ext) \o EncodeChunked(Tail(payloads), ext)

\* the chunk lists a server sends
ChunkLists == UNION {[1..n -> Payloads] : n \in 0..MaxChunks}

\* what the server sends after the header block: a body, then whatever
\* follows it on the connection, then possibly the end of the stream
Served ==
    [lines : FramingLines,
     chunks : ChunkLists,
     chunked : BOOLEAN,
     ext : BOOLEAN,
     rest : {<<>>, <<"x">>, EncodeChunk(<<"y">>, FALSE)},
     eof : BOOLEAN]

\* the bytes of the response s after its header block
Stream(s) ==
    (IF s.chunked THEN EncodeChunked(s.chunks, s.ext) ELSE Join(s.chunks))
      \o s.rest

\* what parse() leaves alone: the pool and the request being made
othervars == <<poolvars, session, args, wire, chain, result, gather,
               keyvars, dnsvars, outer>>

\* _SimpleHTTPParser(): a fresh parser about to run parse()
NewParser ==
    [_content_length |-> <<>>, _chunked |-> FALSE, chunks |-> <<>>,
     size |-> 0, body |-> <<>>, at |-> "headers"]

\* a response arrives on the connection of a request
InitParse ==
    /\ InitGatherIdle /\ InitKeysIdle
    /\ served \in {s \in Served : s.chunked \/ ~s.ext}
    /\ reader = Stream(served)
    /\ parser = NewParser

\* the choice of the body reader that tests _content_length first
ParseHeaders_LengthFirst ==
    /\ parser.at = "headers"
    /\ LET p == ParseFraming(served.lines, parser) IN
       parser' = [p EXCEPT !.at =
                    IF p._content_length # <<>> /\ p._content_length[1] # 0
                    THEN "body"
                    ELSE IF p._chunked THEN "size" ELSE "done"]
    /\ UNCHANGED <<served, reader>>
    /\ UNCHANGED othervars

\* parse() from readuntil(CRLF CRLF) through the header loop to the choice
\* of the body reader
ParseHeaders ==
    /\ parser.at = "headers"
    /\ LET p == ParseFraming(served.lines, parser) IN
       parser' = [p EXCEPT !.at =
                    IF p._chunked THEN "size"
                    ELSE IF p._content_length # <<>>
                            /\ p._content_length[1] # 0
                    THEN "body"
                    ELSE "done"]
    /\ UNCHANGED <<served, reader>>
    /\ UNCHANGED othervars

\* self.body = await reader.readexactly(self._content_length)
ReadBody ==
    /\ parser.at = "body"
    /\ LET n == parser._content_length[1] IN
       /\ Len(reader) >= n
       /\ parser' = [parser EXCEPT !.body = SubSeq(reader, 1, n),
                                   !.at = "done"]
       /\ reader' = SubSeq(reader, n + 1, Len(reader))
    /\ UNCHANGED served
    /\ UNCHANGED othervars

\* the line readline() takes from the buffer: through the first LF, or all
\* of it at the end of the stream
TakeLine == IF LineLen(reader) = 0 THEN Len(reader) ELSE LineLen(reader)

\* size_line = await reader.readline() and the size test
ReadSizeLine ==
    /\ parser.at = "size"
    /\ LineLen(reader) > 0 \/ served.eof
    /\ LET size == ChunkSize(SubSeq(reader, 1, TakeLine)) IN
       parser' = [parser EXCEPT !.size = size,
                                !.at = CASE size = -1 -> "error"
                                         [] size = 0 -> "trailer"
                                         [] OTHER -> "chunk"]
    /\ reader' = SubSeq(reader, TakeLine + 1, Len(reader))
    /\ UNCHANGED served
    /\ UNCHANGED othervars

\* await reader.readline() after the zero-size chunk, then break and join
ReadTrailer ==
    /\ parser.at = "trailer"
    /\ LineLen(reader) > 0 \/ served.eof
    /\ parser' = [parser EXCEPT !.body = Join(parser.chunks), !.at = "done"]
    /\ reader' = SubSeq(reader, TakeLine + 1, Len(reader))
    /\ UNCHANGED served
    /\ UNCHANGED othervars

\* chunks.append(await reader.readexactly(size))
ReadChunk ==
    /\ parser.at = "chunk"
    /\ Len(reader) >= parser.size
    /\ parser' = [parser EXCEPT
                    !.chunks = Append(@, SubSeq(reader, 1, parser.size)),
                    !.at = "crlf"]
    /\ reader' = SubSeq(reader, parser.size + 1, Len(reader))
    /\ UNCHANGED served
    /\ UNCHANGED othervars

\* await reader.readexactly(2)
ReadChunkEnd ==
    /\ parser.at = "crlf"
    /\ Len(reader) >= 2
    /\ parser' = [parser EXCEPT !.at = "size"]
    /\ reader' = SubSeq(reader, 3, Len(reader))
    /\ UNCHANGED served
    /\ UNCHANGED othervars

\* readexactly meets the end of the stream before its bytes: it raises
\* IncompleteReadError, having taken what was there
ReadShort ==
    /\ served.eof
    /\ \/ parser.at = "body" /\ Len(reader) < parser._content_length[1]
       \/ parser.at = "chunk" /\ Len(reader) < parser.size
       \/ parser.at = "crlf" /\ Len(reader) < 2
    /\ parser' = [parser EXCEPT !.at = "error"]
    /\ reader' = <<>>
    /\ UNCHANGED served
    /\ UNCHANGED othervars

NextParse ==
    \/ ParseHeaders
    \/ ReadBody
    \/ ReadSizeLine
    \/ ReadTrailer
    \/ ReadChunk
    \/ ReadChunkEnd
    \/ ReadShort

\* an idle session and pool, and a response arriving
InitSpecParse ==
    InitPool /\ session = DefaultSession /\ InitCallIdle /\ InitParse

SpecParse == InitSpecParse /\ [][NextParse]_vars

\* ------------------------------------------------- gather and bulk_get
MaxRequests == 3     \* requests given to one gather or bulk_get call

\* the arguments of gather: a URL alone, written <<url>>, or a
\* (method, url) tuple
Requests ==
    {<<u>> : u \in {"u1", "u2"}}
      \cup {<<m, u>> : m \in {"GET", "POST"}, u \in {"u1", "u2"}}

\* isinstance(req, str)
IsStr(req) == Len(req) = 1

\* self.get(url, **kwargs)
Get(url) == [method |-> "GET", url |-> url, state |-> "pending"]

\* the coroutine gather makes of one argument
TaskOf(req) ==
    IF IsStr(req) THEN Get(req[1])
    ELSE [method |-> req[1], url |-> req[2], state |-> "pending"]

\* the Response a finished task returned: the server's answer to the
\* method and URL the task sent
ResponseOf(task) == [method |-> task.method, url |-> task.url]

\* a result list in the order the tasks finished
Gathered_CompletionOrder(tasks, finished) ==
    [i \in 1..Len(tasks) |-> ResponseOf(tasks[finished[i]])]

\* what asyncio.gather(*tasks) returns once every task has finished: the
\* results in the order of its arguments
Gathered(tasks, finished) ==
    [i \in 1..Len(tasks) |-> ResponseOf(tasks[i])]

\* a caller is about to call gather(*requests) or bulk_get(urls)
InitGather ==
    /\ \E n \in 0..MaxRequests :
         \E call \in {"gather", "bulk_get"} :
           \E requests \in [1..n -> Requests] :
             /\ call = "bulk_get" => \A i \in 1..n : IsStr(requests[i])
             /\ gather = [call |-> call, requests |-> requests,
                          tasks |-> <<>>, finished |-> <<>>,
                          at |-> "start", value |-> <<>>]

\* what gather and bulk_get leave alone
gatherframe == <<poolvars, session, args, wire, chain, result, parsevars,
                 keyvars, dnsvars, outer>>

\* gather up to its await: one coroutine per argument, in order
GatherCall ==
    /\ gather.at = "start" /\ gather.call = "gather"
    /\ gather' = [gather EXCEPT
                    !.tasks = [i \in 1..Len(gather.requests) |->
                                  TaskOf(gather.requests[i])],
                    !.at = "waiting"]
    /\ UNCHANGED gatherframe

\* bulk_get up to its await: one get per URL, in order
BulkGetCall ==
    /\ gather.at = "start" /\ gather.call = "bulk_get"
    /\ gather' = [gather EXCEPT
                    !.tasks = [i \in 1..Len(gather.requests) |->
                                  Get(gather.requests[i][1])],
                    !.at = "waiting"]
    /\ UNCHANGED gatherframe

\* the request of task i returns its response
TaskDone(i) ==
    /\ gather.at \in {"waiting", "raised"}
    /\ i \in 1..Len(gather.tasks)
    /\ gather.tasks[i].state = "pending"
    /\ gather' = [gather EXCEPT !.tasks[i].state = "done",
                                !.finished = Append(@, i)]
    /\ UNCHANGED gatherframe

\* the request of task i raises: asyncio.gather propagates the first
\* exception to the caller and the other tasks keep running
TaskRaise(i) ==
    /\ gather.at \in {"waiting", "raised"}
    /\ i \in 1..Len(gather.tasks)
    /\ gather.tasks[i].state = "pending"
    /\ gather' = [gather EXCEPT !.tasks[i].state = "failed",
                                !.finished = Append(@, i),
                                !.at = "raised"]
    /\ UNCHANGED gatherframe

\* return await asyncio.gather(*tasks): every task has finished
GatherReturn ==
    /\ gather.at = "waiting"
    /\ \A i \in 1..Len(gather.tasks) : gather.tasks[i].state = "done"
    /\ gather' = [gather EXCEPT
                    !.value = Gathered(gather.tasks, gather.finished),
                    !.at = "returned"]
    /\ UNCHANGED gatherframe

NextGather ==
    \/ GatherCall
    \/ BulkGetCall
    \/ \E i \in 1..MaxRequests : TaskDone(i)
    \/ \E i \in 1..MaxRequests : TaskRaise(i)
    \/ GatherReturn

\* an idle session and pool, and a gather or bulk_get call about to run
InitSpecGather ==
    InitPool /\ session = DefaultSession /\ InitCallIdle /\ InitParseIdle
      /\ InitKeysIdle /\ InitGather

SpecGather == InitSpecGather /\ [][NextGather]_vars

\* ------------------------------------------------- the pools of a session
\* The view by key: requests and redirect hops go to several targets, each
\* a (host, port, is_ssl) triple, and the session keeps its pools in the
\* _pools dict.  Whether an idle entry is still usable (open and young
\* enough) is the environment's choice at each scan.

\* the (host, port, is_ssl) triples requests are made to
Targets == {<<"h", 80, FALSE>>, <<"g", 80, FALSE>>, <<"h", 80, TRUE>>}

\* a key that leaves out is_ssl
PoolKey_NoTls(host, port, is_ssl) == <<host, port, FALSE>>

\* key = (host, port, is_ssl)
PoolKey(host, port, is_ssl) == <<host, port, is_ssl>>

\* _ConnectionPool(host=host, port=port, ssl_context=ssl_ctx, ...)
NewPool(target) ==
    [host |-> target[1], port |-> target[2], ssl |-> target[3],
     available |-> <<>>, in_use |-> {}]

\* self._pools[key] = pool
SetPool(P, k, pool) ==
    [x \in DOMAIN P \cup {k} |-> IF x = k THEN pool ELSE P[x]]

\* _get_pool: the dict after the lookup, the pool registered under the key
\* of the target being built on a miss
GetPool(P, target) ==
    LET key == PoolKey(target[1], target[2], target[3]) IN
    IF key \in DOMAIN P THEN P ELSE SetPool(P, key, NewPool(target))

\* the idle scan of acquire on the list av, the entries in dead being
\* closing or too old: the list left and the writer taken
RECURSIVE KeyScan(_, _)
KeyScan(av, dead) ==
    IF av = <<>> THEN [available |-> <<>>, writer |-> None]
    ELSE IF Head(av) \in dead THEN KeyScan(Tail(av), dead)
    ELSE [available |-> Tail(av), writer |-> Head(av)]

\* release on the pool: out of _in_use, then to the head of the idle list
\* if the connection is kept and the list is short of max_size
KeyRelease(pool, w, keep_alive) ==
    [pool EXCEPT
       !.in_use = @ \ {w},
       !.available = IF keep_alive /\ Len(@) < max_size
                     THEN <<w>> \o @ ELSE @]

\* the connections in the idle list of a pool
KeyIdle(pool) == {pool.available[i] : i \in 1..Len(pool.available)}

\* the call of a task that is not running a request
NoCall == [pc |-> "idle", target |-> <<>>, key |-> <<>>, writer |-> None,
           hops |-> 0]

\* connections opened so far
KeyMade == Cardinality({c \in Conns : keyhist.opened_for[c] # <<>>})

InitKeys ==
    /\ pools_by_key = <<>>
    /\ calls = [t \in Tasks |-> NoCall]
    /\ keyhist = [opened_for |-> [c \in Conns |-> <<>>],
                  pools_made |-> [k \in Targets |-> 0],
                  asked |-> {}]

\* what the view by key leaves alone
keyframe == <<poolvars, session, args, wire, chain, result, parsevars,
              gather, dnsvars, outer>>

\* Session.request for one target up to the first suspension point, on the
\* dict P: _get_pool, then acquire's idle scan, then either the write on a
\* reused connection or the start of a creation
KeyDispatch(t, target, hops, P) ==
    LET key == PoolKey(target[1], target[2], target[3])
        P1 == GetPool(P, target)
    IN
    \E dead \in SUBSET KeyIdle(P1[key]) :
       LET s == KeyScan(P1[key].available, dead) IN
       /\ pools_by_key' =
             [P1 EXCEPT ![key].available = s.available,
                        ![key].in_use = IF s.writer # None
                                        THEN @ \cup {s.writer} ELSE @]
       /\ calls' = [calls EXCEPT ![t] =
             [pc |-> IF s.writer # None THEN "holding" ELSE "creating",
              target |-> target, key |-> key, writer |-> s.writer,
              hops |-> hops]]
       /\ keyhist' = [keyhist EXCEPT
             !.pools_made[key] = IF key \in DOMAIN P THEN @ ELSE @ + 1,
             !.asked = @ \cup {target}]

\* a caller starts a request to some target
KeyRequest(t) ==
    /\ calls[t].pc = "idle"
    /\ \E target \in Targets :
          KeyDispatch(t, target, MaxRedirects, pools_by_key)
    /\ UNCHANGED keyframe

\* _create_connection of the task's pool returns a connection to the
\* pool's own host and port
KeyCreateDone(t) ==
    /\ calls[t].pc = "creating"
    /\ KeyMade < MaxConns
    /\ LET c == KeyMade + 1
           pool == pools_by_key[calls[t].key]
       IN
       /\ keyhist' = [keyhist EXCEPT
                        !.opened_for[c] = <<pool.host, pool.port, pool.ssl>>]
       /\ pools_by_key' = [pools_by_key EXCEPT
                             ![calls[t].key].in_use = @ \cup {c}]
       /\ calls' = [calls EXCEPT ![t].pc = "holding", ![t].writer = c]
    /\ UNCHANGED keyframe

\* _create_connection raises or times out
KeyCreateFail(t) ==
    /\ calls[t].pc = "creating"
    /\ calls' = [calls EXCEPT ![t] = NoCall]
    /\ UNCHANGED <<pools_by_key, keyhist>>
    /\ UNCHANGED keyframe

\* the response is parsed: release to the pool the request took the
\* connection from, then the redirect hop to another target, or return
KeyRespond(t) ==
    /\ calls[t].pc = "holding"
    /\ \E keep_alive \in BOOLEAN :
         LET P == [pools_by_key EXCEPT ![calls[t].key] =
                      KeyRelease(@, calls[t].writer, keep_alive)]
         IN
         \/ /\ calls[t].hops > 0
            /\ \E target \in Targets :
                  KeyDispatch(t, target, calls[t].hops - 1, P)
         \/ /\ pools_by_key' = P
            /\ calls' = [calls EXCEPT ![t] = NoCall]
            /\ UNCHANGED keyhist
    /\ UNCHANGED keyframe

\* the write or the parse raises: release(keep_alive=False), raise
KeyFail(t) ==
    /\ calls[t].pc = "holding"
    /\ pools_by_key' = [pools_by_key EXCEPT ![calls[t].key] =
                          KeyRelease(@, calls[t].writer, FALSE)]
    /\ calls' = [calls EXCEPT ![t] = NoCall]
    /\ UNCHANGED keyhist
    /\ UNCHANGED keyframe

NextKeys ==
    \/ \E t \in Tasks : KeyRequest(t)
    \/ \E t \in Tasks : KeyCreateDone(t)
    \/ \E t \in Tasks : KeyCreateFail(t)
    \/ \E t \in Tasks : KeyRespond(t)
    \/ \E t \in Tasks : KeyFail(t)

\* a new session, seen by key
InitSpecKeys ==
    InitPool /\ session = DefaultSession /\ InitCallIdle /\ InitParseIdle
      /\ InitGatherIdle /\ InitKeys

SpecKeys == InitSpecKeys /\ [][NextKeys]_vars

\* ------------------------------------------------- one request call chain
\* The frames of a call chain: a redirect hop runs as `return await
\* self.request(...)` inside the try block of the call it follows, so an
\* exception of the hop passes through the except clauses of every frame
\* below it, each of which releases the connection its own reader and
\* writer locals still name.

\* the frame keeps its writer local after the release
HopLocal_Kept(w) == w

\* `reader = writer = None` after pool.release(...)
HopLocal(w) == None

\* history record of the release a call chain made in its last step
ChainRel(t, w, keep_alive, raised) ==
    [valid |-> TRUE, task |-> t, w |-> w, keep_alive |-> keep_alive,
     hop |-> Len(outer[t]), raised |-> raised]

\* an exception passes the except clauses of the frames whose writer
\* locals are given, innermost first: `if reader and writer:
\* pool.release(reader, writer, keep_alive=False)`, then raise
RECURSIVE Unwind(_, _)
Unwind(r, locals) ==
    IF locals = <<>> THEN r
    ELSE IF Head(locals) = None THEN Unwind(r, Tail(locals))
    ELSE Unwind(Release(r.available, r.in_use, r.is_closing,
                        Head(locals), FALSE),
                Tail(locals))

chainframe == <<session, args, wire, chain, result, parsevars, gather,
                keyvars, dnsvars>>

\* Session.request on an open session up to the first suspension point,
\* in a frame above the suspended frames given
ChainDispatch(t, av, iu, cl, allow, hops, frames) ==
    LET sc == ScanIdle(av, cl, now) IN
    /\ pools' = TRUE
    /\ available' = sc.available
    /\ is_closing' = sc.is_closing
    /\ writer' = [writer EXCEPT ![t] = sc.writer]
    /\ max_redirects' = [max_redirects EXCEPT ![t] = hops]
    /\ allow_redirects' = [allow_redirects EXCEPT ![t] = allow]
    /\ outer' = [outer EXCEPT ![t] = frames]
    /\ IF sc.writer # None
       THEN /\ in_use' = iu \cup {sc.writer}
            /\ pc' = [pc EXCEPT ![t] = "drain"]
            /\ UNCHANGED creating
       ELSE /\ in_use' = iu
            /\ creating' = creating + 1
            /\ pc' = [pc EXCEPT ![t] = "creating"]

\* an exception leaves the innermost frame with the pool at r and
\* propagates to the caller of the chain
ChainRaise(t, r) ==
    LET u == Unwind(r, outer[t]) IN
    /\ available' = u.available
    /\ in_use' = u.in_use
    /\ is_closing' = u.is_closing
    /\ Return(t)
    /\ outer' = [outer EXCEPT ![t] = <<>>]

\* a caller starts Session.request
ChainRequest(t) ==
    /\ pc[t] = "idle"
    /\ \E allow \in BOOLEAN :
          ChainDispatch(t, available, in_use, is_closing, allow,
                        MaxRedirects, <<>>)
    /\ rel' = NoRel
    /\ UNCHANGED <<now, closed, made, s_closed, default_timeout>>
    /\ UNCHANGED chainframe

\* _create_connection raises or runs into the timeout: acquire's finally
\* block, the except clause with reader and writer still None, raise
ChainCreateFail(t) ==
    /\ pc[t] = "creating"
    /\ creating' = creating - 1
    /\ ChainRaise(t, [available |-> available, in_use |-> in_use,
                      is_closing |-> is_closing])
    /\ rel' = NoRel
    /\ UNCHANGED <<now, closed, made, s_closed, pools, default_timeout>>
    /\ UNCHANGED chainframe

\* parser.parse returns: release, reader = writer = None, then the
\* redirect hop in a new frame, or the response returned down the chain
ChainRespond(t) ==
    /\ pc[t] = "parse"
    /\ \E keep_alive \in BOOLEAN :
         LET r == Release(available, in_use, is_closing, writer[t],
                          keep_alive)
         IN
         /\ rel' = ChainRel(t, writer[t], keep_alive, FALSE)
         /\ \/ /\ allow_redirects[t] /\ max_redirects[t] > 0
               /\ ChainDispatch(t, r.available, r.in_use, r.is_closing,
                                TRUE, max_redirects[t] - 1,
                                <<HopLocal(writer[t])>> \o outer[t])
            \/ /\ available' = r.available
               /\ in_use' = r.in_use
               /\ is_closing' = r.is_closing
               /\ Return(t)
               /\ outer' = [outer EXCEPT ![t] = <<>>]
               /\ UNCHANGED <<creating, pools>>
    /\ UNCHANGED <<now, closed, made, s_closed, default_timeout>>
    /\ UNCHANGED chainframe

\* the write, the drain or the parse raises: the except clause of the
\* innermost frame releases with keep_alive=False, then raise
ChainFail(t) ==
    /\ pc[t] \in {"drain", "parse"}
    /\ ChainRaise(t, Release(available, in_use, is_closing, writer[t],
                             FALSE))
    /\ rel' = ChainRel(t, writer[t], FALSE, TRUE)
    /\ UNCHANGED <<now, closed, creating, made, s_closed, pools,
                   default_timeout>>
    /\ UNCHANGED chainframe

NextChain ==
    \/ \E t \in Tasks : ChainRequest(t)
    \/ \E t \in Tasks : CreateDone(t)
    \/ \E t \in Tasks : ChainCreateFail(t)
    \/ \E t \in Tasks : DrainOk(t)
    \/ \E t \in Tasks : ChainRespond(t)
    \/ \E t \in Tasks : ChainFail(t)
    \/ \E c \in Conns : TransportLost(c)

SpecChain == Init /\ [][NextChain]_vars

\* ------------------------------------------- the TLS context of a pool
\* The view by TLS context: requests with and without certificate
\* verification go to one host over https and over http, in a session
\* built with either default.  A context is named by what it checks.

\* the (host, port, is_ssl) triples of https://h/ and http://h/
TlsTargets == {<<"h", 443, TRUE>>, <<"h", 80, FALSE>>}

\* the verify argument of Session.request: <<>> for None
VerifyArgs == {<<>>, <<TRUE>>, <<FALSE>>}

\* verify_ssl = verify if verify is not None else self.verify
VerifySsl(verify, default) == IF verify # <<>> THEN verify[1] ELSE default

\* _get_ssl_context(verify): create_default_context(), or a context with
\* check_hostname = False and verify_mode = CERT_NONE
GetSslContext(verify) == IF verify THEN "verifying" ELSE "unverified"

\* _ConnectionPool(host=host, port=port, ssl_context=ssl_ctx, ...) with
\* ssl_ctx = self._get_ssl_context(verify) if is_ssl else None
TlsNewPool(target, verify) ==
    [host |-> target[1], port |-> target[2],
     ssl_context |-> IF target[3] THEN <<GetSslContext(verify)>> ELSE <<>>,
     available |-> <<>>, in_use |-> {}]

\* _get_pool(host, port, is_ssl, verify): the dict after the lookup
TlsGetPool(P, target, verify) ==
    LET key == PoolKey(target[1], target[2], target[3]) IN
    IF key \in DOMAIN P THEN P
    ELSE SetPool(P, key, TlsNewPool(target, verify))

\* the call of a task that is not running a request, in this view
NoTlsCall == [pc |-> "idle", target |-> <<>>, verify |-> <<>>,
              writer |-> None]

\* a session built with verify=v, seen by TLS context
InitTls ==
    /\ InitPool /\ InitCallIdle /\ InitParseIdle /\ InitGatherIdle
    /\ session \in {[headers |-> NoHeaders, auth |-> <<>>, verify |-> v] :
                       v \in BOOLEAN}
    /\ pools_by_key = <<>>
    /\ calls = [t \in Tasks |-> NoTlsCall]
    /\ keyhist = [opened |-> {}, context_of |-> [c \in Conns |-> <<>>]]

\* Session.request(verify=verify) for one target up to the first
\* suspension point: verify_ssl, _get_pool, acquire's idle scan, then the
\* write on a reused connection or the start of a creation.  A redirect
\* hop is such a call with the verify argument of the call it follows.
TlsDispatch(t, target, verify) ==
    LET key == PoolKey(target[1], target[2], target[3])
        P1 == TlsGetPool(pools_by_key, target,
                         VerifySsl(verify, session.verify))
    IN
    \E dead \in SUBSET KeyIdle(P1[key]) :
       LET sc == KeyScan(P1[key].available, dead) IN
       /\ pools_by_key' =
             [P1 EXCEPT ![key].available = sc.available,
                        ![key].in_use = IF sc.writer # None
                                        THEN @ \cup {sc.writer} ELSE @]
       /\ calls' = [calls EXCEPT ![t] =
             [pc |-> IF sc.writer # None THEN "holding" ELSE "creating",
              target |-> target, verify |-> verify,
              writer |-> sc.writer]]

\* a caller starts a request
TlsRequest(t) ==
    /\ calls[t].pc = "idle"
    /\ \E target \in TlsTargets : \E verify \in VerifyArgs :
          TlsDispatch(t, target, verify)
    /\ UNCHANGED keyhist
    /\ UNCHANGED keyframe

\* _create_connection returns: open_connection(..., ssl=self.ssl_context),
\* the context the pool was built with; the request is written
TlsCreateDone(t) ==
    /\ calls[t].pc = "creating"
    /\ Cardinality(keyhist.opened) < MaxConns
    /\ LET c == Cardinality(keyhist.opened) + 1
           key == PoolKey(calls[t].target[1], calls[t].target[2],
                          calls[t].target[3])
       IN
       /\ keyhist' = [opened |-> keyhist.opened \cup {c},
                      context_of |-> [keyhist.context_of EXCEPT
                                        ![c] = pools_by_key[key].ssl_context]]
       /\ pools_by_key' = [pools_by_key EXCEPT ![key].in_use = @ \cup {c}]
       /\ calls' = [calls EXCEPT ![t].pc = "holding", ![t].writer = c]
    /\ UNCHANGED keyframe

\* _create_connection raises or times out
TlsCreateFail(t) ==
    /\ calls[t].pc = "creating"
    /\ calls' = [calls EXCEPT ![t] = NoTlsCall]
    /\ UNCHANGED <<pools_by_key, keyhist>>
    /\ UNCHANGED keyframe

\* the response is parsed: release, return
TlsRespond(t) ==
    /\ calls[t].pc = "holding"
    /\ \E keep_alive \in BOOLEAN :
         LET key == PoolKey(calls[t].target[1], calls[t].target[2],
                            calls[t].target[3])
         IN pools_by_key' = [pools_by_key EXCEPT ![key] =
                               KeyRelease(@, calls[t].writer, keep_alive)]
    /\ calls' = [calls EXCEPT ![t] = NoTlsCall]
    /\ UNCHANGED keyhist
    /\ UNCHANGED keyframe

\* the write or the parse raises: release(keep_alive=False), raise
TlsFail(t) ==
    /\ calls[t].pc = "holding"
    /\ LET key == PoolKey(calls[t].target[1], calls[t].target[2],
                          calls[t].target[3])
       IN pools_by_key' = [pools_by_key EXCEPT ![key] =
                             KeyRelease(@, calls[t].writer, FALSE)]
    /\ calls' = [calls EXCEPT ![t] = NoTlsCall]
    /\ UNCHANGED keyhist
    /\ UNCHANGED keyframe

NextTls ==
    \/ \E t \in Tasks : TlsRequest(t)
    \/ \E t \in Tasks : TlsCreateDone(t)
    \/ \E t \in Tasks : TlsCreateFail(t)
    \/ \E t \in Tasks : TlsRespond(t)
    \/ \E t \in Tasks : TlsFail(t)

SpecTls == InitTls /\ [][NextTls]_vars

\* ------------------------------------------------ one connection creation
\* acquire on an open pool with no idle connection: _create_connection
\* with its DNS cache and its loop over the resolved addresses.  The clock
\* runs to MaxDnsTime, beyond the life of a cache entry.
MaxDnsTime == 3      \* last value of the monotonic clock in this view

\* the lists getaddrinfo may return for the host of the pool: no address,
\* one address, or two addresses in either order
AddrLists ==
    {<<>>, <<"192.0.2.1">>, <<"192.0.2.1", "192.0.2.2">>,
     <<"192.0.2.2", "192.0.2.1">>}

\* what asyncio.open_connection may raise
ConnectErrors == {"ConnectionRefusedError", "OSError"}

\* the cache test that never looks at the expiry
CacheHit_NoExpiry(cache, expire, t_now) == cache # <<>>

\* _resolve_dns: `if self._dns_cache and self._dns_expire > now`
CacheHit(cache, expire, t_now) == cache # <<>> /\ expire > t_now

\* last_exc keeps the first error
LastExc_First(last_exc, e) == IF last_exc = <<>> THEN <<e>> ELSE last_exc

\* `except Exception as e: last_exc = e`
LastExc(last_exc, e) == <<e>>

createframe == <<available, closed, is_closing, s_closed, pools, pc, writer,
                 max_redirects, allow_redirects, default_timeout, rel,
                 session, args, wire, chain, result, parsevars, gather,
                 keyvars, outer>>

\* the creation of task t about to try the first address of infos
Connecting(infos) ==
    [at |-> "connecting", infos |-> infos, i |-> 0, last_exc |-> <<>>]

\* acquire up to its first suspension point: nothing idle, _creating += 1,
\* _create_connection and the synchronous head of _resolve_dns
CreateAcquire(t) ==
    /\ creations[t].at = "idle"
    /\ ~closed /\ available = <<>>
    /\ creating' = creating + 1
    /\ IF CacheHit(dns_cache, dns_expire, now)
       THEN /\ creations' = [creations EXCEPT ![t] = Connecting(dns_cache)]
            /\ dnshist' = NoEvent
       ELSE /\ creations' = [creations EXCEPT
                                ![t] = [at |-> "resolving", start |-> now]]
            /\ dnshist' = NoEvent
    /\ UNCHANGED <<now, in_use, made, dns_cache, dns_expire>>
    /\ UNCHANGED createframe

\* getaddrinfo returns infos: the cache is filled; an empty list ends the
\* creation with RuntimeError("Could not connect ...")
Resolved(t, infos) ==
    /\ creations[t].at = "resolving"
    /\ dns_cache' = infos
    /\ dns_expire' = creations[t].start + dns_ttl
    /\ IF infos = <<>>
       THEN /\ creations' = [creations EXCEPT ![t] = NoCreation]
            /\ creating' = creating - 1
            /\ dnshist' = [op |-> "raised",
                           exc |-> "RuntimeError", error |-> <<>>,
                           tried |-> 0]
       ELSE /\ creations' = [creations EXCEPT ![t] = Connecting(infos)]
            /\ creating' = creating
            /\ dnshist' = [op |-> "resolved", replaced |-> dns_cache]
    /\ UNCHANGED <<now, in_use, made>>
    /\ UNCHANGED createframe

\* getaddrinfo raises: the error leaves acquire, the cache is as it was
ResolveFail(t) ==
    /\ creations[t].at = "resolving"
    /\ creations' = [creations EXCEPT ![t] = NoCreation]
    /\ creating' = creating - 1
    /\ dnshist' = [op |-> "raised", exc |-> "gaierror",
                   error |-> <<>>, tried |-> 0]
    /\ UNCHANGED <<now, in_use, made, dns_cache, dns_expire>>
    /\ UNCHANGED createframe

\* open_connection to the next address returns: the connection leaves
\* _create_connection and acquire adds it to _in_use
ConnectOk(t) ==
    /\ creations[t].at = "connecting"
    /\ made < MaxConns
    /\ made' = made + 1
    /\ in_use' = in_use \cup {made + 1}
    /\ creating' = creating - 1
    /\ creations' = [creations EXCEPT ![t] = NoCreation]
    /\ dnshist' = [op |-> "connected",
                   addr |-> creations[t].infos[creations[t].i + 1]]
    /\ UNCHANGED <<now, dns_cache, dns_expire>>
    /\ UNCHANGED createframe

\* open_connection to the next address raises e: the loop goes on to the
\* address after it, and past the last address raises last_exc
ConnectErr(t, e) ==
    /\ creations[t].at = "connecting"
    /\ LET c == creations[t]
           last_exc == LastExc(c.last_exc, e)
       IN
       IF c.i + 1 < Len(c.infos)
       THEN /\ creations' = [creations EXCEPT
                                ![t] = [c EXCEPT !.i = c.i + 1,
                                                 !.last_exc = last_exc]]
            /\ creating' = creating
            /\ dnshist' = NoEvent
       ELSE /\ creations' = [creations EXCEPT ![t] = NoCreation]
            /\ creating' = creating - 1
            /\ dnshist' = [op |-> "raised",
                           exc |-> last_exc[1], error |-> <<e>>,
                           tried |-> c.i + 1]
    /\ UNCHANGED <<now, in_use, made, dns_cache, dns_expire>>
    /\ UNCHANGED createframe

\* acquire(timeout=...): wait_for cancels the creation wherever it is
\* suspended and acquire raises TimeoutError
CreateCancelled(t) ==
    /\ default_timeout
    /\ creations[t].at \in {"resolving", "connecting"}
    /\ creations' = [creations EXCEPT ![t] = NoCreation]
    /\ creating' = creating - 1
    /\ dnshist' = [op |-> "raised", exc |-> "TimeoutError",
                   error |-> <<>>, tried |-> 0]
    /\ UNCHANGED <<now, in_use, made, dns_cache, dns_expire>>
    /\ UNCHANGED createframe

\* the monotonic clock advances
CreateTick ==
    /\ now < MaxDnsTime
    /\ now' = now + 1
    /\ dnshist' = NoEvent
    /\ UNCHANGED <<in_use, made, creating, dns_cache, dns_expire, creations>>
    /\ UNCHANGED createframe

NextCreate ==
    \/ \E t \in Tasks : CreateAcquire(t)
    \/ \E t \in Tasks : \E infos \in AddrLists : Resolved(t, infos)
    \/ \E t \in Tasks : ResolveFail(t)
    \/ \E t \in Tasks : ConnectOk(t)
    \/ \E t \in Tasks : \E e \in ConnectErrors : ConnectErr(t, e)
    \/ \E t \in Tasks : CreateCancelled(t)
    \/ CreateTick

SpecCreate == Init /\ [][NextCreate]_vars

TypeOK ==
    /\ now \in 0..MaxTime
    /\ in_use \subseteq Conns
    /\ made \in 0..MaxConns
    /\ creating \in 0..NumTasks
    /\ \A t \in Tasks : writer[t] \in Conns \cup {None}

\* ------------------------------------------------------------ properties
\* task t holds a connection: it is between acquire and release
Holding(t) == pc[t] \in {"drain", "parse"}

\* the connections opened so far
Made == 1..made

\* the idle-list entry passes the test of acquire's scan
Usable(e) == ~is_closing[e.w] /\ (now - e.created) <= max_idle_time

\* the range of a list of writers
Range(f) == {f[i] : i \in 1..Len(f)}

\* C1 as stated: every connection is in exactly one of the idle list, the
\* in-use set and the closed state.
C1_ExactlyOne ==
    \A c \in Made :
        /\ c \in IdleConns(available) \/ c \in in_use \/ is_closing[c]
        /\ ~(c \in IdleConns(available) /\ c \in in_use)
        /\ ~(c \in IdleConns(available) /\ is_closing[c])
        /\ ~(c \in in_use /\ is_closing[c])

\* C1, amended: no connection is in both the idle list and the in-use set
\* (nor twice in the idle list), and a connection that is in neither is
\* closed; a connection whose transport went down may still sit in the idle
\* list or the in-use set until the pool drops it.
C1_Partition ==
    /\ \A c \in Conns :
          /\ ~(c \in IdleConns(available) /\ c \in in_use)
          /\ (c \in Made /\ c \notin IdleConns(available) /\ c \notin in_use)
                => is_closing[c]
          /\ c \notin Made => c \notin IdleConns(available) /\ c \notin in_use
    /\ \A i, j \in 1..Len(available) : available[i].w = available[j].w => i = j

\* one connection idle while another is loaned, after a release
C1_Witness ==
    /\ rel.valid
    /\ \E c, d \in Made :
          c \in IdleConns(available) /\ d \in in_use /\ ~is_closing[d]

\* C2: two requests in flight never hold the same connection.
C2_Exclusive ==
    \A t, u \in Tasks :
        (t # u /\ Holding(t) /\ Holding(u)) => writer[t] # writer[u]

\* both tasks hold a connection, one of them reused from the idle list
\* right after its release
C2_Witness ==
    /\ \A t \in Tasks : Holding(t)
    /\ rel.valid /\ \E t \in Tasks : writer[t] = rel.w

\* C3 as stated: when a request that holds a connection finishes, the
\* connection is no longer in the in-use set.
C3_ReleasedOnExit ==
    [][\A t \in Tasks :
          (Holding(t) /\ pc'[t] = "idle") => writer[t] \notin in_use']_vars

\* C4 as stated: a request cancelled while it holds a connection leaves the
\* connection closed, out of the in-use set and out of the idle list.
C4_CancelCloses ==
    [][\A t \in Tasks :
          (Holding(t) /\ Cancel(t)) =>
              /\ is_closing'[writer[t]]
              /\ writer[t] \notin in_use'
              /\ writer[t] \notin IdleConns(available')]_vars

\* C5: after release(conn, keep_alive) the connection is in the idle list
\* iff keep_alive was true, its writer was not closing, the pool was not
\* closed and the idle list held fewer than max_size entries; otherwise it
\* is closed; in every case it has left the in-use set.
C5_ReleaseIff ==
    rel.valid =>
        /\ rel.w \in Range(rel.idle_after)
              <=> /\ rel.keep_alive
                  /\ ~rel.was_closing
                  /\ ~rel.pool_closed
                  /\ Len(rel.idle_before) < max_size
        /\ rel.w \notin Range(rel.idle_after)
              => (rel.was_closing \/ rel.w \in rel.closed_by)
        /\ ~rel.in_use_after

\* a release that kept the connection, and the pool still holds it
C5_Witness ==
    /\ rel.valid /\ rel.keep_alive
    /\ rel.w \in Range(rel.idle_after)
    /\ rel.w \in IdleConns(available)

\* C6: in every reachable state the idle list holds at most max_size
\* connections.
C6_IdleBounded == Len(available) <= max_size

\* a keep-alive release found the idle list full and left it full
C6_Witness ==
    /\ rel.valid /\ rel.keep_alive /\ ~rel.was_closing /\ ~rel.pool_closed
    /\ rel.idle_before # <<>>
    /\ Len(rel.idle_before) = max_size /\ Len(available) = max_size

\* a keep-alive release that finds the idle list full
Overflow ==
    /\ rel.valid /\ rel.keep_alive /\ ~rel.was_closing /\ ~rel.pool_closed
    /\ rel.idle_before # <<>>
    /\ Len(rel.idle_before) = max_size

\* C7 as stated: on overflow the oldest idle connection is evicted and
\* closed, and the released connection is kept.
C7_EvictsOldest ==
    Overflow =>
        /\ rel.closed_by = {rel.idle_before[Len(rel.idle_before)]}
        /\ rel.w \in Range(rel.idle_after)

\* C7, amended: on overflow the connection being released is the one that
\* is closed, and the idle list is left as it was (no idle connection is
\* evicted).
C7_ClosesReleased ==
    Overflow =>
        /\ rel.closed_by = {rel.w}
        /\ rel.idle_after = rel.idle_before

\* an overflowing release has happened
C7_Witness == Overflow /\ is_closing[rel.w]

\* task t is handed a connection by acquire in this step
Acquires(t) == pc[t] # "drain" /\ pc'[t] = "drain"

\* C8: a connection that is closed (its writer is closing) is never
\* returned by acquire.
C8_NoClosedAcquired ==
    [][\A t \in Tasks :
          Acquires(t) =>
              ~is_closing[writer'[t]] /\ ~is_closing'[writer'[t]]]_vars

\* a task has been handed the second connection after the first was closed
\* and dropped by the pool
C8_Witness ==
    \E t \in Tasks :
        /\ pc[t] = "drain" /\ writer[t] = 2
        /\ is_closing[1] /\ 1 \notin in_use /\ available = <<>>

\* the first idle entry the scan of acquire accepts
RECURSIVE FirstUsable(_)
FirstUsable(av) ==
    IF av = <<>> THEN None
    ELSE IF Usable(Head(av)) THEN Head(av).w ELSE FirstUsable(Tail(av))

\* C9: a request that starts while the idle list holds a usable connection
\* is handed that connection (the most recently released usable one) and
\* no connection is created; acquire starts a creation only when the idle
\* list holds no usable connection, also on a redirect hop.
C9_KeepAliveReuse ==
    [][\A t \in Tasks :
          /\ (pc[t] = "idle" /\ pc'[t] # "idle") =>
                IF FirstUsable(available) # None
                THEN /\ pc'[t] = "drain"
                     /\ writer'[t] = FirstUsable(available)
                     /\ made' = made /\ creating' = creating
                ELSE /\ pc'[t] = "creating"
                     /\ available' = <<>>
          /\ (pc[t] = "parse" /\ pc'[t] = "creating") =>
                /\ FirstUsable(available) = None
                /\ available' = <<>>
                /\ is_closing'[writer[t]]
          /\ (pc[t] = "parse" /\ pc'[t] = "drain") => made' = made]_vars

\* the second dispatch of a task reuses the connection its first dispatch
\* released with keep-alive, and only one connection was ever opened
C9_Witness ==
    /\ rel.valid /\ rel.keep_alive /\ made = 1
    /\ pc[rel.task] = "drain" /\ writer[rel.task] = rel.w

\* C10: a response with Connection: close is released with keep_alive
\* false, its connection is closed and absent from the idle list, and the
\* next dispatch does not get it: it creates a new connection when the idle
\* list is empty.
C10_ConnectionClose ==
    (rel.valid /\ rel.conn_close) =>
        /\ ~rel.keep_alive
        /\ is_closing[rel.w]
        /\ rel.w \notin Range(rel.idle_after)
        /\ rel.w \notin IdleConns(available)
        /\ rel.w \notin in_use
        /\ \A t \in Tasks : Holding(t) => writer[t] # rel.w
        /\ rel.idle_after = <<>> => pc[rel.task] \in {"idle", "creating"}

\* after a Connection: close response the redirect hop is creating a new
\* connection
C10_Witness ==
    /\ rel.valid /\ rel.conn_close
    /\ pc[rel.task] = "creating" /\ available = <<>>

\* C11 as stated: against a server that accepts the connection and never
\* responds, every request made with a timeout eventually ends (with
\* Timeout) instead of waiting forever, and leaves no connection in the
\* idle list.
C11_SilentServerTimeout ==
    /\ \A t \in Tasks :
          (pc[t] # "idle" /\ default_timeout) ~> (pc[t] = "idle")
    /\ [](available = <<>>)

\* C12: when writer.drain() or parser.parse raises after the request has
\* acquired a connection, the connection is released with keep_alive false,
\* is closed, is in neither the idle list nor the in-use set, and the call
\* ends in that step with the error (no retry, no further dispatch); a
\* closed connection outside the idle list never enters it later.
C12_ErrorCloses ==
    [][/\ \A t \in Tasks :
            (DrainFail(t) \/ ParseFail(t)) =>
                /\ rel'.valid /\ rel'.w = writer[t] /\ ~rel'.keep_alive
                /\ is_closing'[writer[t]]
                /\ writer[t] \notin IdleConns(available')
                /\ writer[t] \notin in_use'
                /\ pc'[t] = "idle" /\ creating' = creating
       /\ \A c \in Conns :
            (is_closing[c] /\ c \notin IdleConns(available))
                => c \notin IdleConns(available')]_vars

\* a failed request has just closed a connection that was still open,
\* while another connection sits in the idle list
C12_Witness ==
    /\ rel.valid /\ ~rel.keep_alive /\ ~rel.conn_close /\ ~rel.was_closing
    /\ is_closing[rel.w] /\ rel.w \notin in_use
    /\ pc[rel.task] = "idle"
    /\ available # <<>>

\* C13: Session.close() sets the closed flag, closes the session's pool
\* (flag set, every idle and in-use connection closed, both collections
\* empty) and empties the registry; a close on a closed session changes
\* nothing; a request started on a closed session ends at once (session
\* closed error) and registers no pool, takes or creates no connection and
\* so writes nothing.
C13_SessionClose ==
    [][/\ (~s_closed /\ SessionClose) =>
            /\ s_closed' /\ ~pools'
            /\ pools =>
                 /\ closed' /\ available' = <<>> /\ in_use' = {}
                 /\ \A c \in IdleConns(available) \cup in_use :
                       is_closing'[c]
       /\ (s_closed /\ SessionClose) =>
            UNCHANGED <<s_closed, pools, closed, available, in_use,
                        is_closing, creating, made, pc, writer>>
       /\ \A t \in Tasks :
            (s_closed /\ Request(t)) =>
                /\ pc'[t] = "idle" /\ writer'[t] = None
                /\ ~pools'
                /\ UNCHANGED <<closed, available, in_use, is_closing,
                               creating, made>>]_vars

\* the session was closed while it had a pool with two connections, both
\* are closed now, and no request is running
C13_Witness ==
    /\ s_closed /\ closed /\ ~pools
    /\ made = 2 /\ is_closing[1] /\ is_closing[2]
    /\ available = <<>> /\ in_use = {}
    /\ \A t \in Tasks : pc[t] = "idle"

\* C14: pool close() sets the closed flag, closes every connection that is
\* idle or in use when it is called (and no other), and leaves the idle
\* list and the in-use set empty; close() on the state close() left changes
\* nothing.
C14_PoolClose ==
    [][PoolClose =>
         /\ closed' /\ available' = <<>> /\ in_use' = {}
         /\ \A c \in Conns :
               is_closing'[c] <=>
                   (is_closing[c] \/ c \in IdleConns(available)
                        \/ c \in in_use)
         /\ Close(available', in_use', is_closing') =
               [closed |-> closed', available |-> available',
                in_use |-> in_use', is_closing |-> is_closing']
         /\ (closed /\ available = <<>> /\ in_use = {}) =>
               UNCHANGED <<closed, available, in_use, is_closing, creating,
                           made, pc, writer>>]_vars

\* close() has been called on a pool that close() had closed before: both
\* connections ever opened are closed and both collections are empty
C14_Witness ==
    /\ rel = Closing(TRUE)
    /\ made = 2 /\ is_closing[1] /\ is_closing[2]
    /\ closed /\ available = <<>> /\ in_use = {}

\* C15: acquire on a pool whose closed flag is set raises the pool-closed
\* error and changes no pool state: the idle list, the in-use set, the
\* creation counter and every connection stay as they were, and the caller
\* holds nothing.
C15_AcquireClosed ==
    [][\A t \in Tasks :
          (closed /\ Acquire(t)) =>
              /\ rel' = Raised(t, "Pool is closed")
              /\ UNCHANGED <<available, in_use, is_closing, creating, made,
                             closed>>
              /\ pc'[t] = "idle" /\ writer'[t] = None]_vars

\* acquire has just been refused on a closed pool
C15_Witness ==
    /\ closed
    /\ \E t \in Tasks : rel = Raised(t, "Pool is closed") /\ pc[t] = "idle"

\* C16: a request called with max_redirects = k makes at most k+1
\* dispatches, whatever the server answers: hop i runs with the counter at
\* k - (i - 1), which never goes below 0.
C16_BoundedHops ==
    wire # <<>> =>
        /\ Len(wire) <= wire[1].args.max_redirects + 1
        /\ \A i \in 1..Len(wire) :
              /\ wire[i].args.max_redirects
                    = wire[1].args.max_redirects - (i - 1)
              /\ wire[i].args.max_redirects >= 0

\* the server answered every hop with a redirect to /b, the call used all
\* its hops and returned the last redirect
C16_Witness ==
    /\ wire # <<>> /\ wire[1].args.max_redirects = MaxRedirects
    /\ Len(wire) = MaxRedirects + 1 /\ Len(wire) > 1
    /\ \A i \in 1..Len(chain) :
          chain[i].status_code = 302 /\ chain[i].location = "/b"
    /\ result # <<>> /\ result[1].status_code = 302

\* response i of the chain is one that is to be followed: redirects were
\* enabled by the caller, the status is a redirect status, fewer than
\* max_redirects hops were followed before it, and it has a Location
C17_Followed(i) ==
    /\ wire[1].args.allow_redirects
    /\ chain[i].status_code \in {301, 302, 303, 307, 308}
    /\ i <= wire[1].args.max_redirects
    /\ chain[i].location # ""

\* C17: every response that is to be followed is followed by a further
\* dispatch and is not returned; a response that is not to be followed
\* ends the chain and is the response returned (so with allow_redirects
\* false the first response is returned whatever its status).
C17_FirstNotFollowed ==
    \A i \in 1..Len(chain) :
        IF C17_Followed(i)
        THEN /\ Len(wire) > i
             /\ i = Len(chain) => result = <<>>
        ELSE /\ i = Len(chain) /\ Len(wire) = i
             /\ result = <<chain[i]>>

\* a 301 was followed and the 304 that came next, Location and all, was
\* returned
C17_Witness ==
    /\ Len(chain) = 2 /\ Len(wire) = 2
    /\ chain[1].status_code = 301
    /\ result # <<>> /\ result[1].status_code = 304
    /\ result[1].location = "/b"

\* C18: the hop after a followed 303 is a GET without body (and without a
\* Content-Length computed from one); the hop after a followed 301, 302,
\* 307 or 308 has the method of the request that was redirected.
C18_Method303 ==
    \A i \in 2..Len(wire) :
        IF chain[i - 1].status_code = 303
        THEN /\ wire[i].request.method = "GET"
             /\ wire[i].request.body = ""
             /\ \A l \in wire[i].request.lines :
                    l[1] = "Content-Length"
                      => "Content-Length" \in DOMAIN wire[i].args.headers
        ELSE wire[i].request.method = wire[i - 1].request.method

\* a POST with a body was answered 303 and the next hop went out
C18_Witness ==
    /\ Len(wire) = 2
    /\ wire[1].request.method = "POST" /\ wire[1].request.body = "x"
    /\ chain[1].status_code = 303
    /\ wire[2].request.method = "GET"

\* the auth in effect for the call: the per-call auth if given, otherwise
\* the session's
C19_InEffect ==
    IF wire[1].args.auth # <<>> THEN wire[1].args.auth ELSE session.auth

\* C19 as stated: on every dispatch of a request, redirect hops included,
\* the auth in effect for the request is applied exactly once.
C19_AuthEveryHop ==
    \A i \in 1..Len(wire) : wire[i].applied = C19_InEffect

\* the five headers every request carries
C20_Names == {"Host", "Connection", "Accept", "Accept-Encoding", "User-Agent"}

\* the values the claim admits for header k of dispatch i: the caller's,
\* else the session's, else the default (for Host the host name, with or
\* without the port)
C20_Expected(i, k) ==
    LET a == wire[i].args
        parsed == UrlParse(a.url)
    IN
    IF k \in DOMAIN a.headers THEN {a.headers[k]}
    ELSE IF k \in DOMAIN session.headers THEN {session.headers[k]}
    ELSE CASE k = "Host" ->
                {parsed.hostname, HostPort(parsed.hostname, Port(parsed))}
           [] k = "Connection" -> {"keep-alive"}
           [] k = "Accept" -> {"*/*"}
           [] k = "Accept-Encoding" -> {"identity"}
           [] k = "User-Agent" -> {"arequest/0.2.0"}

\* C20: every serialized request has exactly one line for each of Host,
\* Connection, Accept, Accept-Encoding and User-Agent, whose value is the
\* per-call header's if the caller gave one, else the session default's if
\* the session has one, else the default.
C20_DefaultHeaders ==
    \A i \in 1..Len(wire) :
        \A k \in C20_Names :
            LET values == {l[2] : l \in {x \in wire[i].request.lines :
                                             x[1] = k}}
            IN Cardinality(values) = 1 /\ values \subseteq C20_Expected(i, k)

\* a request went out with the caller's Accept in place of the session's,
\* the session's User-Agent, and the defaults for Host and Connection
C20_Witness ==
    /\ "Accept" \in DOMAIN session.headers
    /\ \E i \in 1..Len(wire) :
          /\ <<"Accept", "call">> \in wire[i].request.lines
          /\ <<"User-Agent", "sess">> \in wire[i].request.lines
          /\ <<"Host", "h:8080">> \in wire[i].request.lines
          /\ <<"Connection", "keep-alive">> \in wire[i].request.lines

\* the default port of a URL scheme
C21_SchemeDefault(scheme) == IF scheme = "https" THEN 443 ELSE 80

\* C21 as stated: when neither the caller nor the session gives a Host
\* header, the Host line of every serialized request is the host name alone
\* if the port is the default of the request's own scheme (80 for http, 443
\* for https), and host:port for every other (scheme, port) pair.
C21_HostDefault ==
    \A i \in 1..Len(wire) :
        LET a == wire[i].args
            parsed == UrlParse(a.url)
            port == Port(parsed)
            host == IF port = C21_SchemeDefault(parsed.scheme)
                    THEN parsed.hostname
                    ELSE HostPort(parsed.hostname, port)
        IN "Host" \notin DOMAIN a.headers \cup DOMAIN session.headers
             => {l[2] : l \in {x \in wire[i].request.lines : x[1] = "Host"}}
                  = {host}

\* the name of a header line in lower case
C22_Name(l) ==
    IF l[1] \in {"Content-Length", "content-length"} THEN "content-length"
    ELSE l[1]

\* the Content-Length lines of dispatch i, in any letter case
C22_Lines(i) ==
    {l \in wire[i].request.lines : C22_Name(l) = "content-length"}

\* C22 as stated: a request that sets no body is sent without a
\* Content-Length line, and a request with a body of N bytes is sent with
\* exactly one Content-Length line, of value N, whatever the session
\* headers, the per-call headers, data and json are (an empty body counts
\* as either).
C22_ContentLength ==
    \A i \in 1..Len(wire) :
        LET a == wire[i].args
            r == wire[i].request
            one == Cardinality(C22_Lines(i)) = 1
                     /\ \A l \in C22_Lines(i) : l[2] = StrLen(r.body)
        IN
        /\ (a.json = <<>> /\ a.data = <<>>) => C22_Lines(i) = {}
        /\ r.body # "" => one
        /\ (a.json = <<>> /\ a.data = <<"">>) => (one \/ C22_Lines(i) = {})

\* the response has a Transfer-Encoding header containing chunked
C23_HasChunked ==
    \E i \in 1..Len(served.lines) :
        /\ LowerName(served.lines[i][1]) = "transfer-encoding"
        /\ ContainsChunked(served.lines[i][2])

\* the values of the Content-Length headers of the response
C23_Lengths ==
    {ParseInt(served.lines[i][2]) :
        i \in {j \in 1..Len(served.lines) :
                  LowerName(served.lines[j][1]) = "content-length"}}

\* the number of bytes the parser has taken from the connection after the
\* header block
C23_Taken == Len(Stream(served)) - Len(reader)

\* the chunked case and the case of neither header, as the claim and its
\* amendment both have them
C23_ChunkedAndNeither ==
    /\ (parser.at = "done" /\ C23_HasChunked /\ served.chunked)
         => /\ parser.body = Join(served.chunks)
            /\ reader = served.rest
    /\ (~C23_HasChunked /\ C23_Lengths = {})
         => /\ parser.at \in {"headers", "done"}
            /\ parser.body = <<>>
            /\ C23_Taken = 0

\* C23 as stated: when parse returns, a response with Content-Length N has
\* had exactly N body bytes read; one with a chunked Transfer-Encoding has
\* as body the payloads of the chunks before the zero-size chunk; one with
\* neither has an empty body and nothing was read.
C23_AsStated ==
    /\ C23_ChunkedAndNeither
    /\ parser.at = "done"
         => \A n \in C23_Lengths :
               /\ C23_Taken = n
               /\ parser.body = SubSeq(Stream(served), 1, n)

\* C23 amended: the Content-Length case holds for the responses without a
\* chunked Transfer-Encoding; with both headers the body is read chunked
\* and Content-Length is not used.
C23_Framing ==
    /\ C23_ChunkedAndNeither
    /\ (parser.at = "done" /\ ~C23_HasChunked)
         => \A n \in C23_Lengths :
               /\ C23_Taken = n
               /\ parser.body = SubSeq(Stream(served), 1, n)
    /\ (~C23_HasChunked /\ C23_Lengths # {})
         => \A n \in C23_Lengths : C23_Taken <= n

\* parse returned the body of a response with both headers: two chunks
\* with extensions, Content-Length 1, and a further chunk after the
\* zero-size chunk that was left on the connection
C23_Witness ==
    /\ parser.at = "done"
    /\ C23_HasChunked /\ C23_Lengths = {1}
    /\ served.chunked /\ served.ext /\ Len(served.chunks) = 2
    /\ parser.body = <<"x", "y", "x">>
    /\ reader = EncodeChunk(<<"y">>, FALSE)

\* the method and URL request i of a gather or bulk_get call asks for: a
\* URL alone is a GET
C24_Asked(i) ==
    LET req == gather.requests[i] IN
    IF Len(req) = 1 THEN [method |-> "GET", url |-> req[1]]
    ELSE [method |-> req[1], url |-> req[2]]

\* C24: the list gather or bulk_get returns has one element per request
\* given, and element i is the response to request i, a URL given alone
\* having been sent as a GET, in whatever order the requests finished.
C24_Positional ==
    gather.at = "returned"
      => /\ Len(gather.value) = Len(gather.requests)
         /\ \A i \in 1..Len(gather.requests) :
               gather.value[i] = C24_Asked(i)

\* gather returned the responses of three different requests, one a URL
\* alone, which finished last first
C24_Witness ==
    /\ gather.at = "returned" /\ gather.call = "gather"
    /\ gather.requests = << <<"u1">>, <<"POST", "u2">>, <<"GET", "u2">> >>
    /\ gather.finished = <<3, 2, 1>>

\* the step released the connection of task t after a failure: keep_alive
\* false without a Connection: close response
C25_ErrorRelease(t) ==
    rel'.valid /\ rel' = [rel' EXCEPT !.task = t, !.keep_alive = FALSE,
                                      !.conn_close = FALSE]

\* C25: a dispatch acquires one connection and writes once.  A task that
\* waits for a creation ends or writes on the connection created; a task
\* that has written keeps its connection until it ends or its response is
\* parsed; it goes on to a new acquisition only as the redirect hop after
\* a parsed response; and the step that releases after a failed write or
\* parse ends the call, opening and starting no connection.
C25_NoRetry ==
    [][\A t \in Tasks :
          /\ pc[t] = "creating" => pc'[t] \in {"creating", "drain", "idle"}
          /\ pc[t] = "drain"
                => /\ pc'[t] \in {"drain", "parse", "idle"}
                   /\ pc'[t] # "idle" => writer'[t] = writer[t]
          /\ (pc[t] = "parse" /\ pc'[t] = "parse") => writer'[t] = writer[t]
          /\ (pc[t] = "parse" /\ pc'[t] \in {"drain", "creating"})
                => /\ rel'.valid /\ rel'.task = t
                   /\ rel'.keep_alive \/ rel'.conn_close
                   /\ allow_redirects[t]
                   /\ max_redirects'[t] = max_redirects[t] - 1
          /\ C25_ErrorRelease(t)
                => /\ pc'[t] = "idle" /\ writer'[t] = None
                   /\ made' = made /\ creating' = creating]_vars

\* a request failed on the only connection ever opened, which the server
\* had closed under it: the call has ended, every task is idle and no
\* second connection was opened or is being opened
C25_Witness ==
    /\ rel.valid /\ ~rel.keep_alive /\ ~rel.conn_close /\ rel.was_closing
    /\ made = 1 /\ creating = 0
    /\ \A t \in Tasks : pc[t] = "idle" /\ writer[t] = None

\* C26: the session has a pool for exactly the keys requests were made to,
\* built once each; every connection in a pool's idle list or in-use set
\* was opened to that pool's key, and every request holds a connection
\* opened to its own (host, port, is_tls), redirect hops included.
C26_KeyedPools ==
    /\ DOMAIN pools_by_key = keyhist.asked
    /\ \A k \in Targets :
          keyhist.pools_made[k] = IF k \in keyhist.asked THEN 1 ELSE 0
    /\ \A k \in DOMAIN pools_by_key :
          \A c \in KeyIdle(pools_by_key[k]) \cup pools_by_key[k].in_use :
             keyhist.opened_for[c] = k
    /\ \A t \in Tasks :
          calls[t].writer # None
            => keyhist.opened_for[calls[t].writer] = calls[t].target

\* a request redirected to another key holds a connection opened to that
\* key while the connection of its first hop sits idle in the first pool
C26_Witness ==
    \E t \in Tasks :
        /\ calls[t].pc = "holding" /\ calls[t].hops < MaxRedirects
        /\ calls[t].target = <<"h", 80, TRUE>>
        /\ <<"h", 80, FALSE>> \in DOMAIN pools_by_key
        /\ pools_by_key[<<"h", 80, FALSE>>].available # <<>>
        /\ keyhist.opened_for[calls[t].writer] = <<"h", 80, TRUE>>

\* C27: the step in which acquire raises its timeout is taken by a caller
\* waiting for a creation; it leaves the idle list, the in-use set and
\* every connection as they were and opens none, takes the create counter
\* down by the one this acquire had added, so that the counter is again
\* the number of acquires waiting for a creation, and leaves the caller
\* without a connection.
C27_CreateTimeout ==
    [][\A t \in Tasks :
          rel' = Raised(t, "Connection timeout") =>
              /\ pc[t] = "creating" /\ default_timeout
              /\ UNCHANGED <<available, in_use, is_closing, made, closed>>
              /\ creating' = creating - 1
              /\ creating' = Cardinality({u \in Tasks : pc'[u] = "creating"})
              /\ pc'[t] = "idle" /\ writer'[t] = None]_vars

\* an acquire has just timed out while the other caller holds the only
\* connection and no creation is in flight any more
C27_Witness ==
    /\ \E t \in Tasks : rel = Raised(t, "Connection timeout") /\ pc[t] = "idle"
    /\ in_use = {1} /\ made = 1 /\ creating = 0

\* C28: the timeout step is taken only by a request waiting for a
\* creation, holding nothing; a request that holds a connection changes
\* position or ends only when its write drains or fails or its parse
\* returns or fails (or when its caller cancels the task).
C28_TimeoutOnlyCreating ==
    [][\A t \in Tasks :
          /\ CreateTimeout(t) => pc[t] = "creating" /\ writer[t] = None
          /\ (Holding(t) /\ (pc'[t] # pc[t] \/ writer'[t] # writer[t]))
                => \/ pc[t] = "drain" /\ pc'[t] = "parse"
                   \/ rel'.valid /\ rel'.task = t
                   \/ Cancel(t)]_vars

\* a request with a timeout is waiting for its response on a connection
\* reused on a redirect hop, the clock is at its end, and the timeout step
\* is not enabled for it
C28_Witness ==
    \E t \in Tasks :
        /\ pc[t] = "parse" /\ writer[t] = 1 /\ made = 1
        /\ max_redirects[t] < MaxRedirects
        /\ default_timeout /\ now = MaxTime
        /\ ~ENABLED CreateTimeout(t)

C30_First ==
    LET ok == {i \in 1..Len(available) : Usable(available[i])} IN
    IF ok = {} THEN 0 ELSE CHOOSE i \in ok : \A j \in ok : i <= j

\* the entries acquire passes over: all of them if none is usable
C30_Passed ==
    IF C30_First = 0 THEN 1..Len(available) ELSE 1..(C30_First - 1)

\* C30: a call of acquire on an open pool closes and drops every idle
\* entry in front of the first usable one (closing, or idle for longer
\* than max_idle_time), moves that one to the in-use set and returns it,
\* and leaves the entries behind it in place; without a usable entry it
\* empties the list and starts a creation.  The connection returned has
\* been idle for at most max_idle_time.
C30_ScanContinues ==
    [][\A t \in Tasks :
          (pc[t] = "idle" /\ pc'[t] # "idle") =>
              /\ \A i \in C30_Passed :
                    /\ is_closing'[available[i].w]
                    /\ available[i].w \notin IdleConns(available')
                    /\ available[i].w \notin in_use'
              /\ IF C30_First # 0
                 THEN LET e == available[C30_First] IN
                      /\ pc'[t] = "drain" /\ writer'[t] = e.w
                      /\ in_use' = in_use \cup {e.w}
                      /\ ~is_closing'[e.w]
                      /\ now - e.created <= max_idle_time
                      /\ available' = SubSeq(available, C30_First + 1,
                                             Len(available))
                      /\ creating' = creating /\ made' = made
                 ELSE /\ pc'[t] = "creating" /\ writer'[t] = None
                      /\ available' = <<>> /\ in_use' = in_use
                      /\ creating' = creating + 1]_vars

\* acquire found connection 2, closed, at the head of the idle list and
\* connection 1 behind it: it dropped the first and returned the second
C30_Witness ==
    \E t \in Tasks : \E c1, c2 \in 0..MaxTime :
        /\ rel = Scanned(t, <<[w |-> 2, created |-> c2],
                              [w |-> 1, created |-> c1]>>)
        /\ pc[t] = "drain" /\ writer[t] = 1 /\ in_use = {1}
        /\ is_closing[2] /\ ~is_closing[1]
        /\ available = <<>>

\* the idle lists a call of acquire may find
C31_Lists ==
    UNION {[1..n -> [w : Conns, created : 0..MaxTime]] : n \in 1..MaxConns}

\* C31 as stated: the scan stops at the first unusable entry, so a call of
\* acquire that returns an idle connection returns the head of the list it
\* found, and an entry behind an unusable one is never returned.
C31_StopsAtFirst ==
    \A t \in Tasks : \A av \in C31_Lists :
        (rel = Scanned(t, av) /\ pc[t] = "drain") => writer[t] = av[1].w

\* C31 amended: the scan goes on past unusable entries.  A call of acquire
\* that finds an unusable head and a usable entry behind it returns the
\* first usable entry and starts no creation; it starts a creation only after
\* every idle entry was examined, closed and dropped.
C31_ScanPassesUnusable ==
    [][\A t \in Tasks :
          (pc[t] = "idle" /\ pc'[t] # "idle" /\ available # <<>>
             /\ ~Usable(Head(available)))
            => IF \E i \in 1..Len(available) : Usable(available[i])
               THEN /\ pc'[t] = "drain"
                    /\ writer'[t] = FirstUsable(available)
                    /\ creating' = creating
               ELSE /\ pc'[t] = "creating"
                    /\ available' = <<>>
                    /\ \A i \in 1..Len(available) :
                          is_closing'[available[i].w]]_vars

\* acquire found connection 1, closed, at the head of the idle list and
\* returned connection 2 from behind it; no creation was started
C31_Witness ==
    \E t \in Tasks : \E c1, c2 \in 0..MaxTime :
        /\ rel = Scanned(t, <<[w |-> 1, created |-> c1],
                              [w |-> 2, created |-> c2]>>)
        /\ pc[t] = "drain" /\ writer[t] = 2
        /\ is_closing[1] /\ creating = 0

\* the position of connection c in the idle list av; 0 if it is not there
C32_Position(av, c) ==
    LET at == {i \in 1..Len(av) : av[i].w = c} IN
    IF at = {} THEN 0 ELSE CHOOSE i \in at : TRUE

\* C32: a release that keeps its connection puts it at the head of the
\* idle list, in front of the entries found, with the time of the release;
\* the list is therefore newest first; and a call of acquire that returns
\* an idle connection returns the usable one nearest the head, every other
\* usable entry having been released no later.
C32_NewestFirst ==
    [][/\ (rel'.valid /\ rel'.w \in IdleConns(available'))
            => /\ available' = <<[w |-> rel'.w, created |-> now]>>
                                  \o available
               /\ rel'.idle_after = <<rel'.w>> \o rel'.idle_before
       /\ \A i, j \in 1..Len(available') :
             i < j => available'[i].created >= available'[j].created
       /\ \A t \in Tasks :
             (pc[t] = "idle" /\ pc'[t] = "drain")
               => LET p == C32_Position(available, writer'[t]) IN
                  /\ p # 0 /\ Usable(available[p])
                  /\ \A i \in 1..Len(available) :
                        (i # p /\ Usable(available[i]))
                          => /\ i > p
                             /\ available[i].created
                                  <= available[p].created]_vars

\* acquire found two usable idle connections, connection 2 released after
\* connection 1 and so in front of it, and returned connection 2
C32_Witness ==
    \E t \in Tasks :
        /\ rel = Scanned(t, <<[w |-> 2, created |-> now],
                              [w |-> 1, created |-> now]>>)
        /\ pc[t] = "drain" /\ writer[t] = 2
        /\ available = <<[w |-> 1, created |-> now]>>
        /\ ~is_closing[1]

\* C33: a creation consults the DNS cache first: with a non-empty entry
\* that has not expired it resolves nothing and connects to the cached
\* list; otherwise it resolves, and the answer replaces the entry, which
\* expires dns_ttl (60 s) after that resolution began.  Nothing else
\* changes the entry.
C33_DnsCache ==
    [][/\ \A t \in Tasks :
            /\ (creations[t].at = "idle" /\ creations'[t].at # "idle")
                 => IF dns_cache # <<>> /\ dns_expire > now
                    THEN /\ creations'[t].at = "connecting"
                         /\ creations'[t].infos = dns_cache
                         /\ dns_cache' = dns_cache
                         /\ dns_expire' = dns_expire
                    ELSE /\ creations'[t].at = "resolving"
                         /\ creations'[t].start = now
            /\ (creations[t].at = "resolving"
                   /\ creations'[t].at = "connecting")
                 => /\ dns_cache' = creations'[t].infos
                    /\ dns_expire' = creations[t].start + dns_ttl
       /\ (dns_cache' # dns_cache \/ dns_expire' # dns_expire)
            => \E t \in Tasks : /\ creations[t].at = "resolving"
                                /\ creations'[t].at # "resolving"
                                /\ dns_expire' = creations[t].start + dns_ttl
      ]_vars

\* a creation that began after the entry had expired has resolved at once,
\* and its answer has replaced the other list the cache held
C33_Witness ==
    /\ dnshist.op = "resolved"
    /\ dnshist.replaced # <<>> /\ dnshist.replaced # dns_cache
    /\ \E t \in Tasks : /\ creations[t].at = "connecting"
                        /\ creations[t].infos = dns_cache
    /\ now >= dns_ttl /\ dns_expire = now + dns_ttl
    /\ creating = 1

\* C34: the address loop starts at the first resolved address and goes in
\* order; the first address that connects ends it with that connection;
\* it raises an error of open_connection only when the last address has
\* failed after all the others, and that error is the last address's.
C34_AddressLoop ==
    [][\A t \in Tasks :
          /\ (creations[t].at # "connecting"
                 /\ creations'[t].at = "connecting")
               => creations'[t].i = 0
          /\ (creations[t].at = "connecting"
                 /\ creations'[t] # creations[t])
               => LET c == creations[t] IN
                  IF creations'[t].at = "connecting"
                  THEN /\ c.i + 1 < Len(c.infos)
                       /\ creations'[t].infos = c.infos
                       /\ creations'[t].i = c.i + 1
                       /\ made' = made
                  ELSE /\ creations'[t] = NoCreation
                       /\ dnshist'.op \in {"connected", "raised"}
                       /\ dnshist'.op = "connected"
                            => /\ dnshist'.addr = c.infos[c.i + 1]
                               /\ in_use' = in_use \cup {made'}
                               /\ made' = made + 1
                       /\ (dnshist'.op = "raised"
                              /\ dnshist'.exc \in ConnectErrors)
                            => /\ c.i + 1 = Len(c.infos)
                               /\ dnshist'.tried = Len(c.infos)
                               /\ dnshist'.error = <<dnshist'.exc>>
                               /\ in_use' = in_use]_vars

\* a creation over two addresses has failed on both and raised
C34_Witness ==
    /\ dnshist.op = "raised"
    /\ dnshist.exc \in ConnectErrors
    /\ dnshist.tried = 2
    /\ creating = 0 /\ in_use = {}

\* C35: a request over https whose verify is true, by its own argument or
\* by the session default, has its bytes on a connection that was
\* established with the verifying TLS context.
C35_VerifiedTls ==
    \A t \in Tasks :
        (/\ calls[t].pc = "holding"
         /\ calls[t].target[3]
         /\ VerifySsl(calls[t].verify, session.verify))
          => keyhist.context_of[calls[t].writer] = <<"verifying">>

\* C36: once Session.close() has returned, every connection ever opened is
\* closed and the in-use set of the pool is empty, in every later state
\* (so no request holds, or writes on, an open connection after close).
C36_ClosedForGood ==
    s_closed => /\ in_use = {}
                /\ \A c \in Made : is_closing[c]

\* C37: while the session's closed flag is set the pool registry is empty:
\* close clears it and no request, new or in flight, nor any redirect hop,
\* registers a pool afterwards.
C37_RegistryStaysEmpty == s_closed => ~pools

\* a request that was in flight when the session was closed has since
\* released its connection to the closed pool and ended
C37_Witness ==
    /\ s_closed /\ ~pools
    /\ rel.valid /\ rel.pool_closed
    /\ pc[rel.task] = "idle"

\* C38: no request, first call or redirect hop, changes the session's
\* default header mapping or the mapping the caller passed: the call
\* writes its headers, and lets auth.apply write, to a mapping of its own.
C38_MappingsUntouched ==
    [][/\ session'.headers = session.headers
       /\ Len(wire') > Len(wire)
            => LET p == wire'[Len(wire')] IN
               /\ p.object \notin {"default", "caller"}
               /\ args'[1].headers = p.args.headers
               /\ Len(wire) > 0
                    => p.args.headers = wire[Len(wire)].args.headers]_vars

\* on a session with default headers and an auth object, a call without
\* headers of its own and with a body was sent with Content-Length, and
\* the hop that followed it carries none
C38_Witness ==
    /\ Len(wire) = 2
    /\ session.headers # NoHeaders /\ session.auth # <<>>
    /\ wire[1].args.headers = NoHeaders
    /\ wire[1].applied = session.auth
    /\ wire[1].request.body # ""
    /\ "Content-Length" \in DOMAIN wire[1].req_headers
    /\ "Host" \in DOMAIN wire[1].req_headers
    /\ "Content-Length" \notin DOMAIN wire[2].req_headers
    /\ "Host" \notin DOMAIN session.headers

\* C39: the frame that dispatches a redirect hop has released its
\* connection in the same step and names it no longer, so the suspended
\* frames of a call chain hold nothing and the chain holds at most the
\* connection of its innermost frame; and the step that ends a chain in a
\* hop, by an error or by a return, touches no connection but that one.
C39_OneConnection ==
    [][\A t \in Tasks :
          /\ \A i \in 1..Len(outer'[t]) : outer'[t][i] = None
          /\ Len(outer'[t]) > Len(outer[t])
               => /\ rel'.valid /\ rel'.task = t /\ rel'.w = writer[t]
                  /\ writer[t] \in in_use' => writer'[t] = writer[t]
          /\ (Len(outer[t]) > 0 /\ pc[t] # "idle" /\ pc'[t] = "idle")
               => \A c \in Conns \ {writer[t]} :
                     /\ is_closing'[c] = is_closing[c]
                     /\ (c \in in_use') = (c \in in_use)
                     /\ (c \in IdleConns(available'))
                          = (c \in IdleConns(available))]_vars

\* a redirect hop has raised and its connection was closed, while another
\* connection of the pool is open
C39_Witness ==
    /\ rel.valid /\ rel.raised /\ rel.hop > 0
    /\ pc[rel.task] = "idle" /\ outer[rel.task] = <<>>
    /\ is_closing[rel.w]
    /\ \E c \in Made : c # rel.w /\ ~is_closing[c]

\* C40: every redirect hop, whatever the status that led to it, is called
\* without params, data and json: its path is that of the target alone, it
\* has no body, and it carries Content-Length or Content-Type only as the
\* header mappings of the session and of the caller give them.
C40_HopWithoutBody ==
    \A i \in 2..Len(wire) :
        /\ wire[i].args.params = <<>>
        /\ wire[i].args.data = <<>>
        /\ wire[i].args.json = <<>>
        /\ wire[i].request.path = UrlParse(wire[i].args.url).path
        /\ wire[i].request.body = ""
        /\ \A k \in {"Content-Length", "Content-Type"} :
              k \in DOMAIN wire[i].req_headers
                => LET given == MergeHeaders(session.headers,
                                             wire[i].args.headers)
                   IN k \in DOMAIN given
                        /\ wire[i].req_headers[k] = given[k]

\* a POST with params and a body was answered 307 and the hop went out as
\* a POST without them
C40_Witness ==
    /\ Len(wire) = 2
    /\ wire[1].request.method = "POST" /\ wire[1].request.body = "x"
    /\ wire[1].request.path = "/a?q=1"
    /\ "Content-Length" \in DOMAIN wire[1].req_headers
    /\ chain[1].status_code = 307
    /\ wire[2].request.method = "POST" /\ wire[2].request.body = ""
    /\ wire[2].request.path = "/b"
    /\ "Content-Length" \notin DOMAIN wire[2].req_headers

====
